---------------------------- MODULE Spec2Model ----------------------------
(***************************************************************************)
(* A model of sz_mt5stream's MT5Stream engine (src/sz_mt5stream/core/      *)
(* stream.py, with the connection helpers of core/connection.py): the      *)
(* rolling tick buffer and its time_msc frontier, the closed-candle        *)
(* aggregation, the background polling thread with start()/stop(), and     *)
(* the snapshot properties.                                                *)
(*                                                                         *)
(* The module holds several specifications over one set of variables:      *)
(*   SpecTick    one caller polling ticks (poll -> _fetch_new_ticks,       *)
(*               _append_ticks) and reading / changing snapshots           *)
(*   SpecCandle  one caller driving _fetch_completed_candles against the   *)
(*               broker clock and the broker's rates                       *)
(*   Spec        the life cycle: start(), stop(), the _loop threads        *)
(*   SpecRace    two poll() executions and a snapshot reader interleaved   *)
(*               statement by statement                                    *)
(*   SpecStop    the life cycle under one owner, with the threads and the  *)
(*               bounded join scheduled fairly                             *)
(*   SpecManual  poll() called by the program with a bars_timeframe set    *)
(*   SpecOverlap poll() over a tick history read in overlapping batches    *)
(*   SpecFirstFetch  the first candle fetches of an M1 engine              *)
(*   SpecPeriod  _get_period_start applied to sampled instants             *)
(*   SpecBoundary  _get_period_start and utils.get_next_candle_time on     *)
(*               sampled instants, for supported and unsupported values    *)
(*   SpecUnsupported  an engine built with an unsupported bars_timeframe,  *)
(*               started and polled                                        *)
(*   SpecConnect ensure_connection with every combination of arguments     *)
(*   SpecExecutor  MT5Executor.close_all (core/executor.py)                *)
(*   SpecGuard   _fetch_completed_candles against a clock that can go back *)
(*   SpecCallback  one start() and its _loop thread, with candles, feeds   *)
(*               of several ticks and the callback                         *)
(*   SpecReconnect  connection.reconnect with every combination of         *)
(*               arguments and feed answers                                *)
(*   SpecRestart the life cycle under one owner with candles: start(),     *)
(*               stop(), start() again                                     *)
(* Variables a specification does not use keep their initial value.        *)
(***************************************************************************)
EXTENDS Integers, Sequences, FiniteSets, TLC

\* ---------------------------------------------------------------- bounds
\* Largest time_msc value the modelled feed hands out.
MaxMsc == 3
\* Number of ticks the modelled feed produces in one run.
MaxFeed == 4
\* Largest buffer capacity (rolling_ticks, rolling_bars) drawn at construction.
MaxCap == 2
\* Records one copy_ticks_from call returns at most (1000 in the source).
TickWindow == 3

\* Periods of the configured timeframe the broker clock runs through.
MaxPeriods == 7
\* Largest lag of the broker's answer to a rate request, in bars.
MaxLag == 1

\* Thread objects start() can create that exist at one time.
MaxThreads == 2
\* Threads of the program calling start(), stop() and poll().
NCallers == 2
\* Ticks the feed produces in a run of the life cycle.
LifeFeed == 1

\* Ticks the feed produces in a run of the interleaved poll() executions.
RaceFeed == 3

\* Ticks the feed produces in a run of the manual mode.
ManualFeed == 2

\* Python's None.
None == "None"
\* None as the value of self._thread.
NoThread == 0
\* None as the value of the Optional[int] self._last_candle_time.
NoTime == -1
\* Number of ticks the feed produces for an engine run in the background
\* with a callback.
BgFeed == 2
\* most positions open at the terminal at once
MaxPos == 2
\* count of the rate request once a candle has been fetched (the lookback).
Lookback == 5

VARIABLES
    \* --- configuration (MT5Stream.__init__)
    rolling_ticks,      \* self.rolling_ticks
    rolling_bars,       \* self.rolling_bars
    bars_timeframe,     \* self.bars_timeframe
    \* --- tick state
    last_tick_msc,      \* self._last_tick_msc
    ticks,              \* self._ticks, the rows of the DataFrame in order
    feedTicks,          \* every tick the terminal has produced so far, in order
    ingested,           \* history: every row _append_ticks was given, in order
    df_ret,             \* df_new of the last poll(): the value it returned
    \* --- snapshots handed to a caller
    snap,               \* rows of the DataFrame the caller got from .ticks / .bars
    snapOf,             \* the property it came from: "ticks", "bars", None before a read
    snapAlias,          \* TRUE iff that DataFrame is the very object the engine holds
    \* --- candle state
    now,                \* tick.time of mt5.symbol_info_tick: the broker clock, seconds
    feedLag,            \* bars by which the broker's answer to a rate request ends
                        \* before the bar of the clock (0: it ends with the forming bar)
    bars,               \* self._bars, the rows of the DataFrame in order
    last_candle_time,   \* self._last_candle_time
    callPeriod,         \* history: current_period of the last _fetch_completed_candles
                        \* call the feed answered (NoTime: none yet, or no answer)
    appended,           \* history: the rows that call appended to self._bars
    requested,          \* history: whether that call reached mt5.copy_rates_from
    \* --- life cycle
    running,            \* self._running
    thread,             \* self._thread: a thread id, NoThread for None
    tpc,                \* per thread object: where it is in _loop
    tcb,                \* per thread: whether start() was given a callback
    tdf,                \* per thread: df_new, the batch its last poll() returned
    iter,               \* per thread, history of the loop iteration it is in:
                        \* "fresh", "failed" (poll or callback raised), "recovered"
                        \* (the reconnect returned), "lost" (the reconnect raised)
    nRec,               \* per thread, history: _reconnect calls of that iteration
    cpc,                \* per caller: where it is in start() / stop()
    cerr,               \* the exception the last call of a caller raised, or None
    cjoin,              \* per caller: the thread its stop() is joining
    cok,                \* per caller, history: how many of the feed calls of
                        \* its start() in progress answered true (initialize,
                        \* then symbol_select)
    \* --- two poll() executions, statement by statement
    rpc,                \* per poll execution: the statement it is at
    rdf,                \* per poll execution: its local df / df_new
    rbuf,               \* per poll execution: the value of self._ticks it has read
    \* --- history of poll()
    aggCalled,          \* whether the last poll() that returned had called
                        \* _fetch_completed_candles
    pfail,              \* the step at which the last poll() called by the program
                        \* raised ("fetch", "ingest", "candles"); "none" when
                        \* it returned, and after any later call of the program
    perr,               \* the exception the engine's own code raised in the last
                        \* poll() that got its ticks from the feed, or None
    \* --- history of the callback
    delivered,          \* the rows of every batch a _loop thread has called the
                        \* callback with, in the order of the calls
    \* --- utils.get_next_candle_time
    next_time,          \* the datetime the last call returned, as seconds since
                        \* 1970-01-01T00:00:00 (NoTime: no call, or it raised)
    next_err,           \* the exception the last call raised, or None
    \* --- connection.ensure_connection
    cred,               \* the arguments terminal_path, login, password, server
    init_call,          \* the last mt5.initialize call: its keyword arguments,
                        \* the feed's answer and what ensure_connection raised
    reconn,             \* the last connection.reconnect call: the feed calls it
                        \* made, in order, and the exception that left it
    \* --- MT5Executor.close_all
    positions,          \* the open positions at the terminal, in the order of
                        \* mt5.positions_get
    close_symbol,       \* the symbol argument of the last close_all call
    orders,             \* history: the requests that call gave to mt5.order_send
    closed,             \* the number that call returned (NoTime: none yet, or
                        \* the call raised)
    xerr                \* the exception that call raised, or None

cfgVars    == <<rolling_ticks, rolling_bars, bars_timeframe>>
tickVars   == <<last_tick_msc, ticks, feedTicks, ingested, df_ret>>
snapVars   == <<snap, snapOf, snapAlias>>
candleVars == <<now, feedLag, bars, last_candle_time, callPeriod, appended, requested>>
lifeVars   == <<running, thread, tpc, tcb, tdf, iter, nRec, cpc, cerr, cjoin, cok>>
raceVars   == <<rpc, rdf, rbuf>>
pollVars   == <<aggCalled, pfail, perr>>
utilVars   == <<next_time, next_err>>
connVars   == <<cred, init_call, reconn>>
execVars   == <<positions, close_symbol, orders, closed, xerr>>
libVars    == <<utilVars, connVars, execVars>>
vars       == <<cfgVars, tickVars, snapVars, candleVars, lifeVars, raceVars, pollVars,
                 libVars, delivered>>

\* ------------------------------------------------------------- sequences
Min(a, b) == IF a <= b THEN a ELSE b
Max(a, b) == IF a >= b THEN a ELSE b

\* The buggy twin of IlocTail: keeps the first n rows (df.iloc[:n]).
IlocHead(df, n) == SubSeq(df, 1, Min(n, Len(df)))

\* df.iloc[-n:] : the last n rows; Python reads -0 as 0, the whole frame.
IlocTail(df, n) ==
    LET len   == Len(df)
        start == IF n = 0 \/ n >= len THEN 1 ELSE len - n + 1
    IN  SubSeq(df, start, len)

\* if len(buf) > cap: buf = buf.iloc[-cap:].reset_index(drop=True)
\* A buffer that is never cut.
TruncateNever(df, cap) == df

Truncate(df, cap) == IF Len(df) > cap THEN IlocTail(df, cap) ELSE df

\* if buf.empty: buf = df.copy() else: buf = pd.concat([buf, df], ignore_index=True)
Concat(buf, df) == IF buf = <<>> THEN df ELSE buf \o df

\* ------------------------------------------------------------------ ticks
\* A row of the tick frame. time_msc is the frontier key; idx stands for the
\* row's other columns (time, bid, ask, last, volume), which tell two ticks of
\* one millisecond apart.
Tick(m, i) == [time_msc |-> m, idx |-> i]

\* mt5.copy_ticks_from(symbol, request_time, 1000, COPY_TICKS_ALL): the ticks
\* from position a of the terminal's history on, at most TickWindow of them.
\* None and the empty array are the empty sequence.
copy_ticks_from(a) == SubSeq(feedTicks, a, Min(a + TickWindow - 1, Len(feedTicks)))

\* MT5Stream._fetch_new_ticks: the rows newer than the frontier, and the
\* frontier after the call.
\* A frontier filter that keeps the row at the frontier.
fetch_new_ticks_inclusive(raw, last) ==
    LET df == SelectSeq(raw, LAMBDA r : r.time_msc >= last)
    IN  IF raw = <<>> \/ df = <<>>
        THEN [df_new |-> <<>>, last_tick_msc |-> last]
        ELSE [df_new |-> df, last_tick_msc |-> df[Len(df)].time_msc]

\* A frontier set to the first row of the batch.
fetch_new_ticks_first(raw, last) ==
    LET df == SelectSeq(raw, LAMBDA r : r.time_msc > last)
    IN  IF raw = <<>> \/ df = <<>>
        THEN [df_new |-> <<>>, last_tick_msc |-> last]
        ELSE [df_new |-> df, last_tick_msc |-> df[1].time_msc]

fetch_new_ticks(raw, last) ==
    LET df == SelectSeq(raw, LAMBDA r : r.time_msc > last)
    IN  IF raw = <<>> \/ df = <<>>
        THEN [df_new |-> <<>>, last_tick_msc |-> last]
        ELSE [df_new |-> df, last_tick_msc |-> df[Len(df)].time_msc]

\* An append that leaves the buffer as it was.
append_ticks_skip(buf, df_new, cap) == buf

\* MT5Stream._append_ticks
append_ticks(buf, df_new, cap) == Truncate(Concat(buf, df_new), cap)

\* The snapshot that hands out the engine's own frame instead of a copy.
frame_shared(buf) == [rows |-> buf, alias |-> TRUE]

\* DataFrame.copy(): a new object holding the same rows.
frame_copy(buf) == [rows |-> buf, alias |-> FALSE]

\* MT5Stream.ticks: df = self._ticks.copy(); the tz_localize(None) of the time
\* column changes no row the model tells apart.
ticks_property(buf) == frame_copy(buf)

\* MT5Stream.bars: self._bars.copy(), then tz_localize and set_index("time"),
\* each of which builds a new frame again.
bars_property(buf) == frame_copy(buf)

\* The row a caller leaves behind when it overwrites a row of a frame
\* (df.iloc[i] = 0).
ZeroTick == [time_msc |-> 0, idx |-> 0]
ZeroCandle == [time |-> 0, final |-> FALSE, zeroed |-> TRUE]

\* The terminal produces one more tick; time_msc never goes back.
FeedTick ==
    /\ Len(feedTicks) < MaxFeed
    /\ \E m \in 1..MaxMsc :
          /\ feedTicks # <<>> => m >= feedTicks[Len(feedTicks)].time_msc
          /\ feedTicks' = Append(feedTicks, Tick(m, Len(feedTicks) + 1))
    /\ UNCHANGED <<cfgVars, delivered, libVars, last_tick_msc, ticks, ingested, df_ret, snapVars, candleVars, lifeVars, pollVars, raceVars>>

\* poll(), lines 135-137, the feed answering the tick request from position a
\* of its history: _fetch_new_ticks, then _append_ticks when the batch is not
\* empty.
poll_ticks(a) ==
    LET f == fetch_new_ticks(copy_ticks_from(a), last_tick_msc)
    IN  /\ last_tick_msc' = f.last_tick_msc
        /\ df_ret' = f.df_new
        /\ ingested' = ingested \o f.df_new
        /\ IF f.df_new # <<>>
           THEN /\ ticks' = append_ticks(ticks, f.df_new, rolling_ticks)
                \* self._ticks now names a new frame
                /\ snapAlias' = FALSE
           ELSE UNCHANGED <<ticks, snapAlias>>

\* A caller reads the ticks property.
ReadTicks ==
    /\ snap' = ticks_property(ticks).rows
    /\ snapAlias' = ticks_property(ticks).alias
    /\ snapOf' = "ticks"
    /\ UNCHANGED <<cfgVars, delivered, libVars, tickVars, candleVars, lifeVars, pollVars, raceVars>>

\* The caller overwrites a row of the tick frame it was handed; a frame shared
\* with the engine changes under the engine too.
MutateTickSnapshot ==
    /\ snapOf = "ticks"
    /\ \E i \in 1..Len(snap) :
          /\ snap[i] # ZeroTick
          /\ snap' = [snap EXCEPT ![i] = ZeroTick]
    /\ ticks' = IF snapAlias THEN snap' ELSE ticks
    /\ UNCHANGED <<cfgVars, delivered, libVars, last_tick_msc, feedTicks, ingested, df_ret, snapOf,
                   snapAlias, candleVars, lifeVars, pollVars, raceVars>>

\* MT5Stream.__init__: the tick state of a new engine.
InitTickState ==
    /\ last_tick_msc = 0
    /\ ticks = <<>>
    /\ feedTicks = <<>>
    /\ ingested = <<>>
    /\ df_ret = <<>>
    /\ snap = <<>>
    /\ snapOf = None
    /\ snapAlias = FALSE

\* MT5Stream.__init__: the candle state of a new engine, the broker clock at 0.
InitCandleState ==
    /\ now = 0
    /\ feedLag \in 0..MaxLag
    /\ bars = <<>>
    /\ last_candle_time = NoTime
    /\ callPeriod = NoTime
    /\ appended = <<>>
    /\ requested = FALSE

Threads == 1..MaxThreads
Callers == 1..NCallers

\* The poll() executions that can overlap: the one of the _loop thread and one
\* called by the program.
Pollers == {"bg", "manual"}

\* MT5Stream.__init__: not running, no thread; no call in progress.
InitLifeState ==
    /\ aggCalled = FALSE
    /\ pfail = "none"
    /\ perr = None
    /\ delivered = <<>>
    /\ rpc = [p \in Pollers |-> "idle"]
    /\ rdf = [p \in Pollers |-> <<>>]
    /\ rbuf = [p \in Pollers |-> <<>>]
    /\ running = FALSE
    /\ thread = NoThread
    /\ tpc = [t \in Threads |-> "none"]
    /\ tcb = [t \in Threads |-> FALSE]
    /\ tdf = [t \in Threads |-> <<>>]
    /\ iter = [t \in Threads |-> "fresh"]
    /\ nRec = [t \in Threads |-> 0]
    /\ cpc = [c \in Callers |-> "idle"]
    /\ cerr = None
    /\ cjoin = [c \in Callers |-> NoThread]
    /\ cok = [c \in Callers |-> 0]

\* No connection.reconnect call has been made.
NoReconnect ==
    [symbol |-> None, shutdown_raised |-> FALSE, init_ok |-> TRUE,
     select_ok |-> TRUE, calls |-> <<>>, raised |-> None]

\* What a call that raised nothing leaves where an exception is recorded.
NoException == [type |-> None, last_error |-> None, message |-> None]

\* No call of get_next_candle_time, ensure_connection with its defaults, or
\* MT5Executor.close_all has been made, and the terminal has no open position.
InitLibState ==
    /\ next_time = NoTime
    /\ next_err = None
    /\ cred = [terminal_path |-> None, login |-> None, password |-> None,
               server |-> None]
    /\ init_call = [called |-> FALSE, kwargs |-> {}, ok |-> TRUE,
                    feed_error |-> None, raised |-> NoException]
    /\ reconn = NoReconnect
    /\ positions = <<>>
    /\ close_symbol = None
    /\ orders = <<>>
    /\ closed = NoTime
    /\ xerr = None


\* ---------------------------------------------------------------- candles
\* Timeframe = Literal["M1", "M5", "M15", "H1", "D1"]
Timeframes == {"M1", "M5", "M15", "H1", "D1"}

\* Values of bars_timeframe that name a timeframe of the terminal
\* (mt5.TIMEFRAME_M30, mt5.TIMEFRAME_H4) but are no key of MT5_TIMEFRAME.
Unsupported == {"M30", "H4"}

\* Seconds one bar of the broker's timeframe (mt5.TIMEFRAME_*) spans.
PeriodLen(tf) ==
    CASE tf = "M1"  -> 60
      [] tf = "M5"  -> 300
      [] tf = "M15" -> 900
      [] tf = "H1"  -> 3600
      [] tf = "D1"  -> 86400

\* datetime.fromtimestamp(ts, tz=timezone.utc): the fields of the UTC date.
DtSecond(ts) == ts % 60
DtMinute(ts) == (ts \div 60) % 60
DtHour(ts)   == (ts \div 3600) % 24
DtDate(ts)   == ts - (ts % 86400)
\* int(dt.replace(hour=h, minute=m, second=s, microsecond=0).timestamp())
DtReplace(ts, h, m, s) == DtDate(ts) + h * 3600 + m * 60 + s

\* A period start that truncates nothing.
period_start_identity(tf, timestamp) == timestamp

\* A period start that truncates to the minute whatever the timeframe.
period_start_minute(tf, timestamp) == timestamp - (timestamp % 60)

\* MT5Stream._get_period_start: the timestamp is read as a UTC datetime
\* (tz=timezone.utc) and its lower fields are replaced.
get_period_start(tf, timestamp) ==
    CASE tf = "M1"  -> DtReplace(timestamp, DtHour(timestamp), DtMinute(timestamp), 0)
      [] tf = "M5"  -> DtReplace(timestamp, DtHour(timestamp),
                                 (DtMinute(timestamp) \div 5) * 5, 0)
      [] tf = "M15" -> DtReplace(timestamp, DtHour(timestamp),
                                 (DtMinute(timestamp) \div 15) * 15, 0)
      [] tf = "H1"  -> DtReplace(timestamp, DtHour(timestamp), 0, 0)
      [] tf = "D1"  -> DtReplace(timestamp, 0, 0, 0)
      [] OTHER      -> timestamp

\* A next candle time one period after the instant itself.
next_candle_time_unaligned(current_dt, timeframe) ==
    [next_time |-> current_dt + (CASE timeframe = "M1" -> 60
                                   [] timeframe = "M5" -> 300
                                   [] timeframe = "M15" -> 900
                                   [] timeframe = "H1" -> 3600
                                   [] OTHER -> 86400),
     error |-> None]

\* utils.get_next_candle_time: current_dt is a naive datetime, counted here in
\* seconds; `+ timedelta(...)` adds seconds and replace() sets fields.
get_next_candle_time(current_dt, timeframe) ==
    LET plus_hour == current_dt + 3600
        plus_day  == current_dt + 86400
        grouped(n) ==
            LET minute == ((DtMinute(current_dt) \div n) + 1) * n
            IN  IF minute >= 60
                THEN DtReplace(plus_hour, DtHour(plus_hour), 0, 0)
                ELSE DtReplace(current_dt, DtHour(current_dt), minute, 0)
    IN  CASE timeframe = "M1" ->
               [next_time |-> DtReplace(current_dt, DtHour(current_dt),
                                        DtMinute(current_dt), 0) + 60,
                error |-> None]
          [] timeframe = "M5"  -> [next_time |-> grouped(5), error |-> None]
          [] timeframe = "M15" -> [next_time |-> grouped(15), error |-> None]
          [] timeframe = "H1"  ->
               [next_time |-> DtReplace(plus_hour, DtHour(plus_hour), 0, 0),
                error |-> None]
          [] timeframe = "D1"  ->
               [next_time |-> DtReplace(plus_day, 0, 0, 0), error |-> None]
          [] OTHER -> [next_time |-> NoTime, error |-> "ValueError"]

\* A row of the rates frame: time is the bar's open time; final tells whether
\* the bar's interval had ended when the broker reported it (the columns open,
\* high, low, close, tick_volume of a bar still forming are not its last ones).
Candle(t, f) == [time |-> t, final |-> f, zeroed |-> FALSE]

\* mt5.copy_rates_from(symbol, timeframe, broker_time, count): the broker keeps
\* one bar per period from the epoch to the period of the newest tick. It
\* returns at most count bars, oldest first, ending lag bars before the bar the
\* clock is in (lag = 0: the last row is the bar still forming; lag > 0: the
\* naive local broker_time the request carries lies before the broker's clock).
copy_rates_from(tf, t, count, lag) ==
    LET L     == PeriodLen(tf)
        cur   == t \div L
        last  == cur - lag
        first == Max(0, last - count + 1)
    IN  IF count <= 0 \/ last < 0
        THEN <<>>
        ELSE [i \in 1..(last - first + 1) |->
                 Candle((first + i - 1) * L, first + i - 1 < cur)]

\* A guard that lets the call through when the two periods are equal.
period_guard_strict(tf, last, current_period) ==
    last # NoTime /\ current_period < get_period_start(tf, last)

\* _fetch_completed_candles, lines 239-242: the call returns when a candle
\* was fetched before and the clock's period is not after that candle's.
period_guard(tf, last, current_period) ==
    last # NoTime /\ current_period <= get_period_start(tf, last)

\* A lookup that falls back to M1 for a key it does not have.
mt5_timeframe_default(tf) == IF tf \in Timeframes THEN tf ELSE "M1"

\* _fetch_completed_candles, line 244: MT5_TIMEFRAME[self.bars_timeframe]; a
\* value that is no key of the dict raises KeyError.
mt5_timeframe(tf) == IF tf \in Timeframes THEN tf ELSE "KeyError"

\* A marker set to the first of the rows appended.
first_appended(df) == df[1].time

\* _fetch_completed_candles, line 283: the time of the last row appended.
last_appended(df) == df[Len(df)].time

\* MT5Stream._fetch_completed_candles, for a tick at time t (tickOk: the call
\* mt5.symbol_info_tick returned one) and a feed answering the rate request
\* with lag (ratesOk: it did not return None). Returns the new buffer and
\* marker, the rows appended, and whether the rate request was made.
fetch_completed_candles(tf, cap, buf, last, t, tickOk, ratesOk, lag) ==
    LET current_period == get_period_start(tf, t)
        same  == [bars |-> buf, last_candle_time |-> last, appended |-> <<>>,
                  requested |-> FALSE, error |-> None]
        asked == [same EXCEPT !.requested = TRUE]
        mtf   == mt5_timeframe(tf)
    IN  IF tf = None \/ ~tickOk THEN same
        ELSE IF period_guard(tf, last, current_period) THEN same
        ELSE IF mtf = "KeyError" THEN [same EXCEPT !.error = "KeyError"]
        ELSE
          LET count == IF last = NoTime THEN cap ELSE Lookback
              rates == IF ratesOk THEN copy_rates_from(mtf, t, count, lag) ELSE <<>>
              new   == IF last # NoTime
                       THEN SelectSeq(rates, LAMBDA r : r.time > last)
                       ELSE rates
              df    == IF Len(new) > 1
                          /\ get_period_start(tf, new[Len(new)].time) >= current_period
                       THEN SubSeq(new, 1, Len(new) - 1)
                       ELSE new
          IN  IF df = <<>> THEN asked
              ELSE [bars |-> Truncate(Concat(buf, df), cap),
                    last_candle_time |-> last_appended(df),
                    appended |-> df,
                    requested |-> TRUE,
                    error |-> None]

\* One call of _fetch_completed_candles with the feed's answers: what it does
\* to the candle state.
maybe_fetch(tickOk, ratesOk) ==
    LET r == fetch_completed_candles(bars_timeframe, rolling_bars, bars,
                                     last_candle_time, now, tickOk, ratesOk,
                                     feedLag)
    IN  /\ bars' = r.bars
        /\ last_candle_time' = r.last_candle_time
        /\ appended' = r.appended
        /\ requested' = r.requested
        /\ callPeriod' = IF tickOk /\ (r.requested => ratesOk)
                         THEN get_period_start(bars_timeframe, now)
                         ELSE NoTime
        /\ perr' = r.error

\* MT5Stream.poll(), the feed answering the tick request from position a of
\* its history: the ticks, then _fetch_completed_candles when the batch is not
\* empty and a bars_timeframe is configured. perr' tells whether the call
\* returned df_ret' or left with the exception _fetch_completed_candles raised.
poll(a) ==
    /\ poll_ticks(a)
    /\ IF df_ret' # <<>> /\ bars_timeframe # None
       THEN /\ \E tickOk \in BOOLEAN, ratesOk \in BOOLEAN : maybe_fetch(tickOk, ratesOk)
            /\ aggCalled' = TRUE
       ELSE /\ UNCHANGED <<bars, last_candle_time, callPeriod, appended, requested>>
            /\ aggCalled' = FALSE
            /\ perr' = None
    /\ UNCHANGED <<cfgVars, delivered, libVars, feedTicks, snap, snapOf, now, feedLag, raceVars>>

\* poll() called by the one caller of the engine.
Poll ==
    /\ \E a \in 1..(Len(feedTicks) + 1) : poll(a)
    /\ UNCHANGED <<lifeVars, pfail>>

\* The broker clock moves on by k half periods (a new tick arrives).
ClockAdvance ==
    /\ bars_timeframe \in Timeframes
    /\ \E k \in 1..(2 * MaxPeriods) :
          /\ now + k * (PeriodLen(bars_timeframe) \div 2)
                < MaxPeriods * PeriodLen(bars_timeframe)
          /\ now' = now + k * (PeriodLen(bars_timeframe) \div 2)
    /\ UNCHANGED <<cfgVars, delivered, libVars, tickVars, lifeVars, pollVars, raceVars, snapVars, feedLag, bars, last_candle_time,
                   callPeriod, appended, requested>>

\* One call of _fetch_completed_candles (poll() makes it after a batch of new
\* ticks), with the feed's answers drawn.
FetchCandles ==
    /\ bars_timeframe \in Timeframes
    /\ \E tickOk \in BOOLEAN, ratesOk \in BOOLEAN : maybe_fetch(tickOk, ratesOk)
    \* self._bars names a new frame once rows were appended
    /\ snapAlias' = IF appended' # <<>> THEN FALSE ELSE snapAlias
    /\ UNCHANGED <<cfgVars, delivered, libVars, tickVars, lifeVars, aggCalled, pfail, raceVars, snap,
                   snapOf, now, feedLag>>

\* A caller reads the bars property.
ReadBars ==
    /\ bars_timeframe \in Timeframes
    /\ snap' = bars_property(bars).rows
    /\ snapAlias' = bars_property(bars).alias
    /\ snapOf' = "bars"
    /\ UNCHANGED <<cfgVars, delivered, libVars, tickVars, lifeVars, pollVars, raceVars, now, feedLag, bars, last_candle_time,
                   callPeriod, appended, requested>>

\* The caller overwrites a row of the bars frame it was handed.
MutateBarSnapshot ==
    /\ snapOf = "bars"
    /\ \E i \in 1..Len(snap) :
          /\ snap[i] # ZeroCandle
          /\ snap' = [snap EXCEPT ![i] = ZeroCandle]
    /\ bars' = IF snapAlias THEN snap' ELSE bars
    /\ UNCHANGED <<cfgVars, delivered, libVars, tickVars, lifeVars, pollVars, raceVars, snapOf, snapAlias, now, feedLag,
                   last_candle_time, callPeriod, appended, requested>>

\* The tick side alone: one caller, no bars_timeframe.
InitTick ==
    /\ InitLifeState
    /\ InitLibState
    /\ rolling_ticks \in 0..MaxCap
    /\ rolling_bars = 0
    /\ bars_timeframe = None
    /\ InitTickState
    /\ InitCandleState
    /\ feedLag = 0

NextTick == FeedTick \/ Poll \/ ReadTicks \/ MutateTickSnapshot

SpecTick == InitTick /\ [][NextTick]_vars

InitCandle ==
    /\ InitLifeState
    /\ InitLibState
    /\ rolling_ticks = 0
    /\ rolling_bars \in 0..MaxCap
    /\ bars_timeframe \in Timeframes
    /\ InitTickState
    /\ InitCandleState

NextCandle == ClockAdvance \/ FetchCandles \/ ReadBars \/ MutateBarSnapshot

SpecCandle == InitCandle /\ [][NextCandle]_vars


\* ------------------------------------------------------------- life cycle

\* A connect that reports nothing whatever mt5.initialize answers.
ensure_connection_silent(initOk) == None

\* connection.ensure_connection: raises MT5ConnectionError when mt5.initialize
\* answers false.  The result is the exception raised, None for a return.
ensure_connection(initOk) == IF initOk THEN None ELSE "MT5ConnectionError"

\* connection.ensure_symbol: raises MT5SymbolError when mt5.symbol_select
\* answers false.
ensure_symbol(selOk) == IF selOk THEN None ELSE "MT5SymbolError"

\* connection.reconnect: shutdown (its failure swallowed), then
\* ensure_connection, then ensure_symbol; the first exception escapes.
reconnect(initOk, selOk) ==
    IF ensure_connection(initOk) # None THEN ensure_connection(initOk)
    ELSE ensure_symbol(selOk)

\* threading.Thread.is_alive(): started and its target has not returned.
Alive(t) == tpc[t] \in {"check", "poll", "callback", "reconnect", "sleep"}

\* A thread object nothing refers to any more, or a slot never used.
Free(t) == tpc[t] = "none" \/ (tpc[t] \in {"created", "dead"} /\ thread # t)

\* An exception ends the loop body before the handler: control is lost.
loop_unhandled == "dead"

\* _loop: `except Exception: self._reconnect()` takes every exception of the
\* try block to the reconnect call.
loop_on_exception == "reconnect"

\* A loop test that never sees the flag.
loop_condition_blind(flag) == TRUE

\* _loop, line 146: the condition of `while self._running`.
loop_condition(flag) == flag

\* The feed produces one more tick, later than all before it.
LifeFeedTick ==
    /\ Len(feedTicks) < LifeFeed
    /\ feedTicks' = Append(feedTicks, Tick(Len(feedTicks) + 1, Len(feedTicks) + 1))
    /\ UNCHANGED <<cfgVars, delivered, libVars, last_tick_msc, ticks, ingested, df_ret, snapVars,
                   candleVars, lifeVars, pollVars, raceVars>>

\* start(), line 113: self._ensure_connection(); its exception ends the call.
StartConnect(c) ==
    /\ cpc[c] = "idle"
    /\ \E initOk \in BOOLEAN :
          LET e == ensure_connection(initOk)
          IN  /\ cerr' = e
              /\ cpc' = [cpc EXCEPT ![c] = IF e = None THEN "start_select" ELSE "idle"]
              /\ cok' = [cok EXCEPT ![c] = IF e # None THEN 0 ELSE IF initOk THEN 1 ELSE 0]
    /\ pfail' = "none"
    /\ UNCHANGED <<cfgVars, delivered, libVars, tickVars, snapVars, candleVars, aggCalled, perr, raceVars,
                   running, thread, tpc, tcb, tdf, iter, nRec, cjoin>>

\* start(), line 114: self._ensure_symbol(self.symbol); its exception ends the
\* call.
StartSelect(c) ==
    /\ cpc[c] = "start_select"
    /\ \E selOk \in BOOLEAN :
          LET e == ensure_symbol(selOk)
          IN  /\ cerr' = e
              /\ cpc' = [cpc EXCEPT ![c] = IF e = None THEN "start_check" ELSE "idle"]
              /\ cok' = [cok EXCEPT ![c] = IF e # None THEN 0 ELSE IF selOk THEN @ + 1 ELSE @]
    /\ UNCHANGED <<cfgVars, delivered, libVars, tickVars, snapVars, candleVars, pollVars, raceVars,
                   running, thread, tpc, tcb, tdf, iter, nRec, cjoin>>

\* start(), lines 115-116: `if self._running: return`.
StartCheck(c) ==
    /\ cpc[c] = "start_check"
    /\ cpc' = [cpc EXCEPT ![c] = IF running THEN "idle" ELSE "start_set"]
    /\ cerr' = IF running THEN None ELSE cerr
    /\ cok' = [cok EXCEPT ![c] = IF running THEN 0 ELSE @]
    /\ UNCHANGED <<cfgVars, delivered, libVars, tickVars, snapVars, candleVars, pollVars, raceVars,
                   running, thread, tpc, tcb, tdf, iter, nRec, cjoin>>

\* A start() that puts the frontier and the candle marker back to their
\* values in a new engine.
StartSetReset(c) ==
    /\ cpc[c] = "start_set"
    /\ running' = TRUE
    /\ cpc' = [cpc EXCEPT ![c] = "start_thread"]
    /\ last_tick_msc' = 0
    /\ last_candle_time' = NoTime
    /\ UNCHANGED <<cfgVars, delivered, libVars, ticks, feedTicks, ingested, df_ret, snapVars,
                   now, feedLag, bars, callPeriod, appended, requested, pollVars, raceVars,
                   thread, tpc, tcb, tdf, iter, nRec, cerr, cjoin, cok>>

\* start(), line 117: self._running = True.
StartSet(c) ==
    /\ cpc[c] = "start_set"
    /\ running' = TRUE
    /\ cpc' = [cpc EXCEPT ![c] = "start_thread"]
    /\ UNCHANGED <<cfgVars, delivered, libVars, tickVars, snapVars, candleVars, pollVars, raceVars,
                   thread, tpc, tcb, tdf, iter, nRec, cerr, cjoin, cok>>

\* start(), line 118: self._thread = threading.Thread(target=self._loop,
\* args=(callback,)); the callback is the caller's argument, given or None.
StartThread(c) ==
    /\ cpc[c] = "start_thread"
    /\ \E t \in Threads :
          /\ Free(t)
          /\ \A u \in Threads : Free(u) => t <= u
          /\ thread' = t
          /\ \E callback \in BOOLEAN : tcb' = [tcb EXCEPT ![t] = callback]
          /\ tpc' = [tpc EXCEPT ![t] = "created"]
          /\ tdf' = [tdf EXCEPT ![t] = <<>>]
          /\ iter' = [iter EXCEPT ![t] = "fresh"]
          /\ nRec' = [nRec EXCEPT ![t] = 0]
    /\ cpc' = [cpc EXCEPT ![c] = "start_run"]
    /\ UNCHANGED <<cfgVars, delivered, libVars, tickVars, snapVars, candleVars, pollVars, raceVars, running, cerr, cjoin, cok>>

\* start(), line 119: self._thread.start() on the thread self._thread names
\* now; Thread.start() raises RuntimeError on a thread started before.
StartRun(c) ==
    /\ cpc[c] = "start_run"
    /\ IF tpc[thread] = "created"
       THEN /\ tpc' = [tpc EXCEPT ![thread] = "check"]
            /\ cerr' = None
       ELSE /\ cerr' = "RuntimeError"
            /\ UNCHANGED tpc
    /\ cpc' = [cpc EXCEPT ![c] = "idle"]
    /\ cok' = [cok EXCEPT ![c] = 0]
    /\ UNCHANGED <<cfgVars, delivered, libVars, tickVars, snapVars, candleVars, pollVars, raceVars,
                   running, thread, tcb, tdf, iter, nRec, cjoin>>

\* stop(), lines 125-126: self._running = False, then the join is entered
\* when self._thread is set and alive.
StopSet(c) ==
    /\ cpc[c] = "idle"
    /\ running' = FALSE
    /\ IF thread # NoThread /\ Alive(thread)
       THEN /\ cpc' = [cpc EXCEPT ![c] = "stop_join"]
            /\ cjoin' = [cjoin EXCEPT ![c] = thread]
            /\ UNCHANGED cerr
       ELSE /\ cerr' = None
            /\ UNCHANGED <<cpc, cjoin>>
    /\ pfail' = "none"
    /\ UNCHANGED <<cfgVars, delivered, libVars, tickVars, snapVars, candleVars, aggCalled, perr, raceVars,
                   thread, tpc, tcb, tdf, iter, nRec, cok>>

\* stop(), line 127: join(timeout=2.0) returns when the thread has ended, or
\* after two seconds whatever the thread is doing.
StopJoinReturn(c) ==
    /\ cpc[c] = "stop_join"
    /\ cpc' = [cpc EXCEPT ![c] = "idle"]
    /\ cjoin' = [cjoin EXCEPT ![c] = NoThread]
    /\ cerr' = None
    /\ UNCHANGED <<cfgVars, delivered, libVars, tickVars, snapVars, candleVars, pollVars, raceVars,
                   running, thread, tpc, tcb, tdf, iter, nRec, cok>>

\* A handler in poll() that would turn an exception into an empty return.
poll_swallows == "return"

\* poll() and the three methods it calls have no try statement: an exception
\* of any of them leaves poll().
poll_on_exception == "raise"

\* poll() raising at one of its steps, and what it has done by then: nothing
\* at the tick fetch; the frontier moved at _append_ticks; the ticks ingested
\* at _fetch_completed_candles.
poll_raises(a, step) ==
    LET f == fetch_new_ticks(copy_ticks_from(a), last_tick_msc)
    IN  /\ step \in {"fetch", "ingest", "candles"}
        /\ step # "fetch" => f.df_new # <<>>
        /\ step = "candles" => bars_timeframe # None
        /\ last_tick_msc' = IF step = "fetch" THEN last_tick_msc ELSE f.last_tick_msc
        /\ IF step = "candles"
           THEN /\ ticks' = append_ticks(ticks, f.df_new, rolling_ticks)
                /\ ingested' = ingested \o f.df_new
                /\ snapAlias' = FALSE
           ELSE UNCHANGED <<ticks, ingested, snapAlias>>
        /\ UNCHANGED <<cfgVars, delivered, libVars, feedTicks, df_ret, snap, snapOf, candleVars, raceVars,
                       aggCalled, perr>>

\* poll() called by a caller of the engine: it returns, or raises to the caller.
ManualPoll(c) ==
    /\ cpc[c] = "idle"
    /\ \/ /\ \E a \in 1..(Len(feedTicks) + 1) : poll(a)
          /\ cerr' = IF poll_on_exception = "raise" THEN perr' ELSE None
          /\ pfail' = IF perr' # None THEN "candles" ELSE "none"
       \/ /\ \E a \in 1..(Len(feedTicks) + 1), step \in {"fetch", "ingest", "candles"} :
                /\ poll_raises(a, step)
                /\ pfail' = step
          /\ cerr' = IF poll_on_exception = "raise" THEN "Exception" ELSE None
    /\ UNCHANGED <<running, thread, tpc, tcb, tdf, iter, nRec, cpc, cjoin, cok>>

\* A dispatch test that looks at the callback alone.
callback_due_any(callback, df_new) == callback

\* _loop, line 149: `if callback and not df_new.empty`.
callback_due(callback, df_new) == callback /\ df_new # <<>>

\* _loop, line 146: `while self._running`; the target returns when it is false.
LoopCheck(t) ==
    /\ tpc[t] = "check"
    /\ tpc' = [tpc EXCEPT ![t] = IF loop_condition(running) THEN "poll" ELSE "dead"]
    /\ iter' = [iter EXCEPT ![t] = "fresh"]
    /\ nRec' = [nRec EXCEPT ![t] = 0]
    /\ UNCHANGED <<cfgVars, delivered, libVars, tickVars, snapVars, candleVars, pollVars, raceVars,
                   running, thread, tcb, tdf, cpc, cerr, cjoin, cok>>

\* _loop, lines 148-149 and 151: df_new = self.poll(); the callback is next when
\* one was given and the batch is not empty; an exception goes to the handler.
LoopPoll(t) ==
    /\ tpc[t] = "poll"
    /\ \/ /\ \E a \in 1..(Len(feedTicks) + 1) : poll(a)
          /\ tdf' = IF perr' # None THEN tdf ELSE [tdf EXCEPT ![t] = df_ret']
          /\ tpc' = [tpc EXCEPT ![t] =
                        IF perr' # None THEN loop_on_exception
                        ELSE IF callback_due(tcb[t], df_ret')
                             THEN "callback" ELSE "sleep"]
          /\ iter' = IF perr' # None THEN [iter EXCEPT ![t] = "failed"] ELSE iter
          /\ UNCHANGED pfail
       \/ /\ \E a \in 1..(Len(feedTicks) + 1), step \in {"fetch", "ingest", "candles"} :
                poll_raises(a, step)
          /\ tpc' = [tpc EXCEPT ![t] = loop_on_exception]
          /\ iter' = [iter EXCEPT ![t] = "failed"]
          /\ UNCHANGED <<tdf, pfail>>
    /\ UNCHANGED <<running, thread, tcb, nRec, cpc, cerr, cjoin, cok>>

\* A callback whose exception makes the loop call it again with the batch.
LoopCallbackRetry(t) ==
    /\ tpc[t] = "callback"
    /\ delivered' = delivered \o tdf[t]
    /\ \/ /\ tpc' = [tpc EXCEPT ![t] = "sleep"]
          /\ tdf' = [tdf EXCEPT ![t] = <<>>]
          /\ UNCHANGED iter
       \/ /\ Len(delivered) < BgFeed
          /\ iter' = [iter EXCEPT ![t] = "failed"]
          /\ UNCHANGED <<tpc, tdf>>
    /\ UNCHANGED <<cfgVars, libVars, tickVars, snapVars, candleVars, pollVars, raceVars,
                   running, thread, tcb, nRec, cpc, cerr, cjoin, cok>>

\* _loop, lines 150-151: callback(df_new) returns or raises.
LoopCallback(t) ==
    /\ tpc[t] = "callback"
    /\ delivered' = delivered \o tdf[t]
    /\ tdf' = [tdf EXCEPT ![t] = <<>>]
    /\ \/ /\ tpc' = [tpc EXCEPT ![t] = "sleep"]
          /\ UNCHANGED iter
       \/ /\ tpc' = [tpc EXCEPT ![t] = loop_on_exception]
          /\ iter' = [iter EXCEPT ![t] = "failed"]
    /\ UNCHANGED <<cfgVars, libVars, tickVars, snapVars, candleVars, pollVars, raceVars,
                   running, thread, tcb, nRec, cpc, cerr, cjoin, cok>>

\* _loop, line 152: self._reconnect() inside the except clause.  When it
\* returns the loop goes on to the sleep; an exception it raises is raised
\* inside the handler, leaves _loop, and the thread ends.
LoopReconnect(t) ==
    /\ tpc[t] = "reconnect"
    /\ nRec' = [nRec EXCEPT ![t] = @ + 1]
    /\ \E initOk, selOk \in BOOLEAN :
          IF reconnect(initOk, selOk) = None
          THEN /\ tpc' = [tpc EXCEPT ![t] = "sleep"]
               /\ iter' = [iter EXCEPT ![t] = "recovered"]
          ELSE /\ tpc' = [tpc EXCEPT ![t] = "dead"]
               /\ iter' = [iter EXCEPT ![t] = "lost"]
    /\ UNCHANGED <<cfgVars, delivered, libVars, tickVars, snapVars, candleVars, pollVars, raceVars,
                   running, thread, tcb, tdf, cpc, cerr, cjoin, cok>>

\* A sleep that is followed by the next poll with no loop test.
LoopSleepNoTest(t) ==
    /\ tpc[t] = "sleep"
    /\ tpc' = [tpc EXCEPT ![t] = "poll"]
    /\ UNCHANGED <<cfgVars, delivered, libVars, tickVars, snapVars, candleVars, pollVars, raceVars,
                   running, thread, tcb, tdf, iter, nRec, cpc, cerr, cjoin, cok>>

\* _loop, line 153: time.sleep(self.poll_interval), then the loop test again.
LoopSleep(t) ==
    /\ tpc[t] = "sleep"
    /\ tpc' = [tpc EXCEPT ![t] = "check"]
    /\ UNCHANGED <<cfgVars, delivered, libVars, tickVars, snapVars, candleVars, pollVars, raceVars,
                   running, thread, tcb, tdf, iter, nRec, cpc, cerr, cjoin, cok>>

Init ==
    /\ rolling_ticks = 1
    /\ rolling_bars = 0
    /\ bars_timeframe = None
    /\ InitTickState
    /\ InitCandleState
    /\ feedLag = 0
    /\ InitLifeState
    /\ InitLibState

Next ==
    \/ LifeFeedTick
    \/ \E c \in Callers : StartConnect(c)
    \/ \E c \in Callers : StartSelect(c)
    \/ \E c \in Callers : StartCheck(c)
    \/ \E c \in Callers : StartSet(c)
    \/ \E c \in Callers : StartThread(c)
    \/ \E c \in Callers : StartRun(c)
    \/ \E c \in Callers : StopSet(c)
    \/ \E c \in Callers : StopJoinReturn(c)
    \/ \E c \in Callers : ManualPoll(c)
    \/ \E t \in Threads : LoopCheck(t)
    \/ \E t \in Threads : LoopPoll(t)
    \/ \E t \in Threads : LoopCallback(t)
    \/ \E t \in Threads : LoopReconnect(t)
    \/ \E t \in Threads : LoopSleep(t)

Spec == Init /\ [][Next]_vars

\* One step of the _loop thread t.
ThreadStep(t) ==
    LoopCheck(t) \/ LoopPoll(t) \/ LoopCallback(t) \/ LoopReconnect(t) \/ LoopSleep(t)

\* The one program thread that owns the engine and calls start() and stop().
Owners == {c \in Callers : \A d \in Callers : c <= d}

\* The life cycle driven by one owner, with no poll() of its own.
NextStop ==
    \/ LifeFeedTick
    \/ \E c \in Owners : StartConnect(c)
    \/ \E c \in Owners : StartSelect(c)
    \/ \E c \in Owners : StartCheck(c)
    \/ \E c \in Owners : StartSet(c)
    \/ \E c \in Owners : StartThread(c)
    \/ \E c \in Owners : StartRun(c)
    \/ \E c \in Owners : StopSet(c)
    \/ \E c \in Owners : StopJoinReturn(c)
    \/ \E t \in Threads : LoopCheck(t)
    \/ \E t \in Threads : LoopPoll(t)
    \/ \E t \in Threads : LoopCallback(t)
    \/ \E t \in Threads : LoopReconnect(t)
    \/ \E t \in Threads : LoopSleep(t)

\* Every started thread is scheduled and its feed calls, its callback and its
\* sleep return; join(timeout=2.0) returns.
SpecStop ==
    /\ Init
    /\ [][NextStop]_vars
    /\ \A t \in Threads : WF_vars(ThreadStep(t))
    /\ \A c \in Owners : WF_vars(StopJoinReturn(c))


\* ------------------------------------------- poll() executions interleaved

\* The feed produces one more tick, later than all before it.
RaceFeedTick ==
    /\ Len(feedTicks) < RaceFeed
    /\ feedTicks' = Append(feedTicks, Tick(Len(feedTicks) + 1, Len(feedTicks) + 1))
    /\ UNCHANGED <<cfgVars, delivered, libVars, last_tick_msc, ticks, ingested, df_ret, snapVars,
                   candleVars, lifeVars, pollVars, raceVars>>

\* _fetch_new_ticks, lines 163-177: the feed is asked, the rows are filtered
\* against the frontier read at line 175; an empty result ends poll().
RaceFetch(p) ==
    /\ rpc[p] = "idle"
    /\ \E a \in 1..(Len(feedTicks) + 1) :
          LET raw == copy_ticks_from(a)
              df  == SelectSeq(raw, LAMBDA r : r.time_msc > last_tick_msc)
          IN  /\ rdf' = [rdf EXCEPT ![p] = df]
              /\ rpc' = [rpc EXCEPT ![p] = IF df = <<>> THEN "idle" ELSE "frontier"]
    /\ UNCHANGED <<cfgVars, delivered, libVars, tickVars, snapVars, candleVars, lifeVars, pollVars, rbuf>>

\* _fetch_new_ticks, line 179: self._last_tick_msc = the last row's time_msc.
RaceSetFrontier(p) ==
    /\ rpc[p] = "frontier"
    /\ last_tick_msc' = rdf[p][Len(rdf[p])].time_msc
    /\ rpc' = [rpc EXCEPT ![p] = "concat_read"]
    /\ UNCHANGED <<cfgVars, delivered, libVars, ticks, feedTicks, ingested, df_ret, snapVars,
                   candleVars, lifeVars, pollVars, rdf, rbuf>>

\* _append_ticks, lines 186-189: self._ticks is read ...
RaceConcatRead(p) ==
    /\ rpc[p] = "concat_read"
    /\ rbuf' = [rbuf EXCEPT ![p] = ticks]
    /\ rpc' = [rpc EXCEPT ![p] = "concat_write"]
    /\ UNCHANGED <<cfgVars, delivered, libVars, tickVars, snapVars, candleVars, lifeVars, pollVars, rdf>>

\* ... and the frame built from it and df_new is bound to self._ticks.
RaceConcatWrite(p) ==
    /\ rpc[p] = "concat_write"
    /\ ticks' = Concat(rbuf[p], rdf[p])
    /\ snapAlias' = FALSE
    /\ rpc' = [rpc EXCEPT ![p] = "trunc_read"]
    /\ UNCHANGED <<cfgVars, delivered, libVars, last_tick_msc, feedTicks, ingested, df_ret,
                   snap, snapOf, candleVars, lifeVars, pollVars, rdf, rbuf>>

\* _append_ticks, lines 190-191: len(self._ticks) is compared with
\* rolling_ticks; when it is larger self._ticks is read for the slice ...
RaceTruncRead(p) ==
    /\ rpc[p] = "trunc_read"
    /\ IF Len(ticks) > rolling_ticks
       THEN /\ rbuf' = [rbuf EXCEPT ![p] = ticks]
            /\ rpc' = [rpc EXCEPT ![p] = "trunc_write"]
            /\ UNCHANGED rdf
       ELSE /\ rbuf' = [rbuf EXCEPT ![p] = <<>>]
            /\ rdf' = [rdf EXCEPT ![p] = <<>>]
            /\ rpc' = [rpc EXCEPT ![p] = "idle"]
    /\ UNCHANGED <<cfgVars, delivered, libVars, tickVars, snapVars, candleVars, lifeVars, pollVars>>

\* ... and the slice is bound to self._ticks; poll() returns.
RaceTruncWrite(p) ==
    /\ rpc[p] = "trunc_write"
    /\ ticks' = IlocTail(rbuf[p], rolling_ticks)
    /\ snapAlias' = FALSE
    /\ rbuf' = [rbuf EXCEPT ![p] = <<>>]
    /\ rdf' = [rdf EXCEPT ![p] = <<>>]
    /\ rpc' = [rpc EXCEPT ![p] = "idle"]
    /\ UNCHANGED <<cfgVars, delivered, libVars, last_tick_msc, feedTicks, ingested, df_ret,
                   snap, snapOf, candleVars, lifeVars, pollVars>>

\* A poll() execution is between its read of the frontier and the end of its
\* buffer update.
Mutating(p) == rpc[p] # "idle"

InitRace ==
    /\ rolling_ticks \in 1..MaxCap
    /\ rolling_bars = 0
    /\ bars_timeframe = None
    /\ InitTickState
    /\ InitCandleState
    /\ feedLag = 0
    /\ InitLifeState
    /\ InitLibState

NextRace ==
    \/ RaceFeedTick
    \/ \E p \in Pollers : RaceFetch(p)
    \/ \E p \in Pollers : RaceSetFrontier(p)
    \/ \E p \in Pollers : RaceConcatRead(p)
    \/ \E p \in Pollers : RaceConcatWrite(p)
    \/ \E p \in Pollers : RaceTruncRead(p)
    \/ \E p \in Pollers : RaceTruncWrite(p)
    \/ ReadTicks

SpecRace == InitRace /\ [][NextRace]_vars


\* ------------------------------------------------------------ manual mode

\* A new tick at the terminal, k half periods after the one before: the feed
\* has one more tick and mt5.symbol_info_tick reports its time.
TickArrives ==
    /\ bars_timeframe \in Timeframes
    /\ Len(feedTicks) < ManualFeed
    /\ feedTicks' = Append(feedTicks, Tick(Len(feedTicks) + 1, Len(feedTicks) + 1))
    /\ \E k \in 0..(2 * MaxPeriods) :
          /\ now + k * (PeriodLen(bars_timeframe) \div 2)
                < MaxPeriods * PeriodLen(bars_timeframe)
          /\ now' = now + k * (PeriodLen(bars_timeframe) \div 2)
    /\ UNCHANGED <<cfgVars, delivered, libVars, last_tick_msc, ticks, ingested, df_ret, snapVars,
                   feedLag, bars, last_candle_time, callPeriod, appended, requested,
                   lifeVars, raceVars, pollVars>>

\* An engine with a bars_timeframe, never started, polled by its owner.
InitManual ==
    /\ rolling_ticks = MaxCap
    /\ rolling_bars \in 1..MaxCap
    /\ bars_timeframe \in Timeframes
    /\ InitTickState
    /\ InitCandleState
    /\ InitLifeState
    /\ InitLibState

NextManual ==
    \/ TickArrives
    \/ \E c \in Owners : ManualPoll(c)

SpecManual == InitManual /\ [][NextManual]_vars


\* ------------------------------------------------- overlapping tick batches

\* The terminal's history: five ticks with time_msc 101 .. 105, of which one
\* request returns TickWindow in a row.
OverlapFeed == [i \in 1..(TickWindow + 2) |-> Tick(100 + i, i)]

InitOverlap ==
    /\ rolling_ticks \in 1..(TickWindow + 2)
    /\ rolling_bars = 0
    /\ bars_timeframe = None
    /\ last_tick_msc = 0
    /\ ticks = <<>>
    /\ feedTicks = OverlapFeed
    /\ ingested = <<>>
    /\ df_ret = <<>>
    /\ snap = <<>>
    /\ snapOf = None
    /\ snapAlias = FALSE
    /\ InitCandleState
    /\ feedLag = 0
    /\ InitLifeState
    /\ InitLibState

NextOverlap == Poll \/ ReadTicks

SpecOverlap == InitOverlap /\ [][NextOverlap]_vars


\* ------------------------------------------------------------ first fetch

\* An M1 engine whose candle buffer holds more than the three records of the
\* first minutes.
InitFirstFetch ==
    /\ rolling_ticks = 0
    /\ rolling_bars \in (MaxCap + 1)..Lookback
    /\ bars_timeframe = "M1"
    /\ InitTickState
    /\ InitCandleState
    /\ InitLifeState
    /\ InitLibState

NextFirstFetch == ClockAdvance \/ FetchCandles

SpecFirstFetch == InitFirstFetch /\ [][NextFirstFetch]_vars


\* ------------------------------------------------------------ period start

\* Instants _get_period_start is applied to: seconds of 1970-01-01,
\* 1970-01-02 and 2024-01-01 (day 19723), around the boundaries of each
\* timeframe.
Instants ==
    {d * 86400 + h * 3600 + m * 60 + sec :
        d \in {0, 1, 19723}, h \in {0, 1, 23},
        m \in {0, 4, 5, 7, 14, 15, 16, 59}, sec \in {0, 1, 31, 59}}

\* _get_period_start(now) is computed for the configured timeframe.
ApplyPeriodStart ==
    /\ callPeriod = NoTime
    /\ callPeriod' = get_period_start(bars_timeframe, now)
    /\ UNCHANGED <<cfgVars, delivered, libVars, tickVars, snapVars, now, feedLag, bars, last_candle_time,
                   appended, requested, lifeVars, raceVars, pollVars>>

\* Another instant is taken.
NextInstant ==
    /\ callPeriod # NoTime
    /\ now' \in Instants
    /\ callPeriod' = NoTime
    /\ UNCHANGED <<cfgVars, delivered, libVars, tickVars, snapVars, feedLag, bars, last_candle_time,
                   appended, requested, lifeVars, raceVars, pollVars>>

InitPeriod ==
    /\ rolling_ticks = 0
    /\ rolling_bars = 0
    /\ bars_timeframe \in Timeframes
    /\ InitTickState
    /\ now \in {t \in Instants : t < 86400}
    /\ feedLag = 0
    /\ bars = <<>>
    /\ last_candle_time = NoTime
    /\ callPeriod = NoTime
    /\ appended = <<>>
    /\ requested = FALSE
    /\ InitLifeState
    /\ InitLibState

NextPeriod == ApplyPeriodStart \/ NextInstant

SpecPeriod == InitPeriod /\ [][NextPeriod]_vars


\* ------------------------------------------- background mode with candles

\* A new tick at the terminal, at the clock's second or a minute later.
BgTick ==
    /\ Len(feedTicks) < BgFeed
    /\ feedTicks' = Append(feedTicks, Tick(Len(feedTicks) + 1, Len(feedTicks) + 1))
    /\ now' \in {now, now + 60}
    /\ UNCHANGED <<cfgVars, delivered, libVars, last_tick_msc, ticks, ingested, df_ret,
                   snapVars, feedLag, bars, last_candle_time, callPeriod, appended,
                   requested, lifeVars, raceVars, pollVars>>

\* MT5Stream(symbol, bars_timeframe="M1", rolling_ticks=n, rolling_bars=1).
InitCallback ==
    /\ rolling_ticks \in 1..MaxCap
    /\ rolling_bars = 1
    /\ bars_timeframe = "M1"
    /\ InitTickState
    /\ InitCandleState
    /\ feedLag = 0
    /\ InitLifeState
    /\ InitLibState

\* The engine started by its owner, who never calls stop() or poll().
NextCallback ==
    \/ BgTick
    \/ \E c \in Owners : StartConnect(c)
    \/ \E c \in Owners : StartSelect(c)
    \/ \E c \in Owners : StartCheck(c)
    \/ \E c \in Owners : StartSet(c)
    \/ \E c \in Owners : StartThread(c)
    \/ \E c \in Owners : StartRun(c)
    \/ \E t \in Threads : LoopCheck(t)
    \/ \E t \in Threads : LoopPoll(t)
    \/ \E t \in Threads : LoopCallback(t)
    \/ \E t \in Threads : LoopReconnect(t)
    \/ \E t \in Threads : LoopSleep(t)

SpecCallback == InitCallback /\ [][NextCallback]_vars


\* ------------------------------------------------ a clock that can go back

\* mt5.symbol_info_tick reports a time k half periods before the one it
\* reported last.
ClockRegress ==
    /\ bars_timeframe \in Timeframes
    /\ \E k \in 1..(2 * MaxPeriods) :
          /\ now - k * (PeriodLen(bars_timeframe) \div 2) >= 0
          /\ now' = now - k * (PeriodLen(bars_timeframe) \div 2)
    /\ UNCHANGED <<cfgVars, delivered, libVars, tickVars, lifeVars, pollVars, raceVars, snapVars,
                   feedLag, bars, last_candle_time, callPeriod, appended, requested>>

\* An engine with a bars_timeframe and room for candles.
InitGuard ==
    /\ rolling_ticks = 0
    /\ rolling_bars \in 1..MaxCap
    /\ bars_timeframe \in Timeframes
    /\ InitTickState
    /\ InitCandleState
    /\ InitLifeState
    /\ InitLibState

NextGuard == ClockAdvance \/ ClockRegress \/ FetchCandles

SpecGuard == InitGuard /\ [][NextGuard]_vars


\* ------------------------------------------------------------ connection

\* The values Python takes for false in `if terminal_path:` and in
\* `if login and password and server:`: None, the empty string, and the
\* integer 0 (written "0").
Falsy == {None, "", "0"}

\* Arguments ensure_connection is called with.
Credentials ==
    [terminal_path : {None, "", "C:/MT5/terminal64.exe"},
     login         : {None, "0", "1234567"},
     password      : {None, "", "secret"},
     server        : {None, "", "Broker-Server"}]

\* Codes mt5.last_error() reports after a failed initialize; "OTHER" is one
\* MT5ConnectionError has no message for.
ErrorCodes == {"RES_E_FAIL", "RES_E_AUTH_FAILED", "RES_E_INTERNAL_FAIL_TIMEOUT",
               "OTHER"}

\* Keyword arguments that hold every credential that is set by itself.
initialize_kwargs_partial(c) ==
    {<<k, c[k]>> : k \in {k \in {"login", "password", "server"} : c[k] \notin Falsy}}
        \cup (IF c.terminal_path \notin Falsy
                THEN {<<"path", c.terminal_path>>} ELSE {})

\* ensure_connection, lines 20-26: the keyword arguments of mt5.initialize,
\* as pairs <<name, value>>.
initialize_kwargs(c) ==
    LET kwargs == IF c.terminal_path \notin Falsy
                  THEN {<<"path", c.terminal_path>>} ELSE {}
    IN  IF c.login \notin Falsy /\ c.password \notin Falsy /\ c.server \notin Falsy
        THEN {<<"login", c.login>>, <<"password", c.password>>,
              <<"server", c.server>>} \cup kwargs
        ELSE kwargs

\* MT5ConnectionError(last_error): the exception keeps the argument in its
\* attribute last_error and maps it to a message.
MT5ConnectionError(last_error) ==
    [type |-> "MT5ConnectionError",
     last_error |-> last_error,
     message |-> CASE last_error = "RES_E_FAIL" -> "generic fail"
                   [] last_error = "RES_E_AUTH_FAILED" -> "authorization failed"
                   [] last_error = "RES_E_INTERNAL_FAIL_TIMEOUT" -> "internal timeout"
                   [] OTHER -> "unknown error code"]

\* ensure_connection(terminal_path, login, password, server): mt5.initialize is
\* called once; when it answers false the exception is built from
\* mt5.last_error().
EnsureConnection ==
    /\ \E initOk \in BOOLEAN, code \in ErrorCodes :
          init_call' = [called |-> TRUE,
                        kwargs |-> initialize_kwargs(cred),
                        ok |-> initOk,
                        feed_error |-> IF initOk THEN None ELSE code,
                        raised |-> IF ensure_connection(initOk) = None
                                   THEN NoException
                                   ELSE MT5ConnectionError(code)]
    /\ UNCHANGED <<cfgVars, delivered, tickVars, snapVars, candleVars, lifeVars, raceVars,
                   pollVars, utilVars, cred, reconn, execVars>>

\* ensure_connection called with any combination of its arguments.
InitConnect ==
    /\ rolling_ticks = 0
    /\ rolling_bars = 0
    /\ bars_timeframe = None
    /\ InitTickState
    /\ InitCandleState
    /\ feedLag = 0
    /\ InitLifeState
    /\ next_time = NoTime
    /\ next_err = None
    /\ cred \in Credentials
    /\ init_call = [called |-> FALSE, kwargs |-> {}, ok |-> TRUE,
                    feed_error |-> None, raised |-> NoException]
    /\ reconn = NoReconnect
    /\ positions = <<>>
    /\ close_symbol = None
    /\ orders = <<>>
    /\ closed = NoTime
    /\ xerr = None

NextConnect == EnsureConnection

SpecConnect == InitConnect /\ [][NextConnect]_vars

\* Values of the symbol argument of reconnect: absent, empty, a symbol.
Symbols == {None, "", "EURUSD"}

\* A reconnect that tries mt5.initialize a second time when the first fails.
reconnect_calls_retry(symbol, shutdownRaises, initOk, selOk) ==
    LET conn == ensure_connection(initOk)
        head == <<"mt5.shutdown", "time.sleep", "mt5.initialize">>
    IN  IF conn # None
        THEN [calls |-> head \o <<"mt5.last_error", "mt5.initialize", "mt5.last_error">>,
              raised |-> conn]
        ELSE IF symbol \notin Falsy
        THEN [calls |-> head \o <<"mt5.symbol_select">>, raised |-> ensure_symbol(selOk)]
        ELSE [calls |-> head, raised |-> None]

\* connection.reconnect, lines 54-62: the calls it makes, in order, and the
\* exception it ends with.  An exception of mt5.shutdown is swallowed;
\* ensure_connection calls mt5.initialize once and, when that answers false,
\* mt5.last_error for the exception it raises; ensure_symbol is reached only
\* when ensure_connection returned and the symbol is not empty.
reconnect_calls(symbol, shutdownRaises, initOk, selOk) ==
    LET conn == ensure_connection(initOk)
        head == <<"mt5.shutdown", "time.sleep", "mt5.initialize">>
    IN  IF conn # None
        THEN [calls |-> head \o <<"mt5.last_error">>, raised |-> conn]
        ELSE IF symbol \notin Falsy
        THEN [calls |-> head \o <<"mt5.symbol_select">>, raised |-> ensure_symbol(selOk)]
        ELSE [calls |-> head, raised |-> None]

\* reconnect(terminal_path, login, password, server, symbol) called once more.
Reconnect ==
    /\ \E symbol \in Symbols, shutdownRaises, initOk, selOk \in BOOLEAN,
          code \in ErrorCodes :
          LET r == reconnect_calls(symbol, shutdownRaises, initOk, selOk)
          IN  /\ reconn' = [symbol |-> symbol, shutdown_raised |-> shutdownRaises,
                            init_ok |-> initOk, select_ok |-> selOk,
                            calls |-> r.calls, raised |-> r.raised]
              /\ init_call' = [called |-> TRUE,
                               kwargs |-> initialize_kwargs(cred),
                               ok |-> initOk,
                               feed_error |-> IF initOk THEN None ELSE code,
                               raised |-> IF ensure_connection(initOk) = None
                                          THEN NoException
                                          ELSE MT5ConnectionError(code)]
    /\ UNCHANGED <<cfgVars, delivered, tickVars, snapVars, candleVars, lifeVars, raceVars,
                   pollVars, utilVars, cred, execVars>>

\* reconnect called again and again with any arguments and any feed answers.
NextReconnect == Reconnect

SpecReconnect == InitConnect /\ [][NextReconnect]_vars


\* -------------------------------------------------------------- executor

\* Positions the terminal can hold: symbol, type (mt5.POSITION_TYPE_BUY or
\* POSITION_TYPE_SELL) and volume, in hundredths of a lot.
Position == [symbol : {"EURUSD", "US100"}, type : {"BUY", "SELL"}, volume : {1, 2}]

\* What the terminal does with the order for one position: the retcode of the
\* result ("DONE", or "REJECT" for any other), "None" when order_send returns
\* None, "NoTick" when symbol_info_tick returns None before the request.
Answers == {"DONE", "REJECT", "None", "NoTick"}

\* MT5Executor.positions: mt5.positions_get(symbol=symbol), the open positions
\* of that symbol, or all of them without one.
positions_get(open, symbol) ==
    IF symbol = None THEN open ELSE SelectSeq(open, LAMBDA p : p.symbol = symbol)

\* An order on the side of the position.
same_side(type) == type

\* close_all, lines 253-256: market_sell for a BUY position, market_buy for
\* any other.
opposite(type) == IF type = "BUY" THEN "SELL" ELSE "BUY"

\* close_all, lines 250-258, from position i of poss on: sent are the requests
\* given to mt5.order_send so far, each with the retcode of its result, and n
\* the value of `closed`. _tick and _send raise RuntimeError, which nothing in
\* close_all, market_sell or market_buy catches.
RECURSIVE close_from(_, _, _, _, _, _)
close_from(poss, symbol, answers, i, sent, n) ==
    IF i > Len(poss)
    THEN [orders |-> sent, closed |-> n, error |-> None]
    ELSE IF symbol # None /\ poss[i].symbol # symbol
    THEN close_from(poss, symbol, answers, i + 1, sent, n)
    ELSE IF answers[i] = "NoTick"
    THEN [orders |-> sent, closed |-> NoTime, error |-> "RuntimeError"]
    ELSE LET req == [symbol |-> poss[i].symbol, type |-> opposite(poss[i].type),
                     volume |-> poss[i].volume, retcode |-> answers[i]]
         IN  IF answers[i] = "None"
             THEN [orders |-> Append(sent, req), closed |-> NoTime,
                   error |-> "RuntimeError"]
             ELSE close_from(poss, symbol, answers, i + 1, Append(sent, req),
                             IF answers[i] = "DONE" THEN n + 1 ELSE n)

\* MT5Executor.close_all(symbol), the terminal answering the order for the
\* i-th position it reports with answers[i].
close_all(open, symbol, answers) ==
    LET poss == positions_get(open, symbol)
    IN  IF poss = <<>>
        THEN [orders |-> <<>>, closed |-> 0, error |-> None]
        ELSE close_from(poss, symbol, answers, 1, <<>>, 0)

\* A position is opened at the terminal; what is recorded of the last
\* close_all call, made on the positions before, is dropped.
PositionOpens ==
    /\ Len(positions) < MaxPos
    /\ \E p \in Position : positions' = Append(positions, p)
    /\ close_symbol' = None
    /\ orders' = <<>>
    /\ closed' = NoTime
    /\ xerr' = None
    /\ UNCHANGED <<cfgVars, delivered, tickVars, snapVars, candleVars, lifeVars, raceVars,
                   pollVars, utilVars, connVars>>

\* close_all(symbol) is called, with or without a symbol.
CloseAll ==
    /\ \E symbol \in {None, "EURUSD", "US100"},
          answers \in [1..Len(positions) -> Answers] :
          LET r == close_all(positions, symbol, answers)
          IN  /\ close_symbol' = symbol
              /\ orders' = r.orders
              /\ closed' = r.closed
              /\ xerr' = r.error
    /\ UNCHANGED <<cfgVars, delivered, tickVars, snapVars, candleVars, lifeVars, raceVars,
                   pollVars, utilVars, connVars, positions>>

\* An executor on a terminal with no position open.
InitExecutor ==
    /\ rolling_ticks = 0
    /\ rolling_bars = 0
    /\ bars_timeframe = None
    /\ InitTickState
    /\ InitCandleState
    /\ feedLag = 0
    /\ InitLifeState
    /\ InitLibState

NextExecutor == PositionOpens \/ CloseAll

SpecExecutor == InitExecutor /\ [][NextExecutor]_vars


\* ------------------------------------------------- unsupported timeframe

\* A new tick at the terminal, at the clock's second or a minute later.
TickAtClock ==
    /\ Len(feedTicks) < LifeFeed
    /\ feedTicks' = Append(feedTicks, Tick(Len(feedTicks) + 1, Len(feedTicks) + 1))
    /\ now' \in {now, now + 60}
    /\ UNCHANGED <<cfgVars, delivered, libVars, last_tick_msc, ticks, ingested, df_ret, snapVars,
                   feedLag, bars, last_candle_time, callPeriod, appended, requested,
                   lifeVars, raceVars, pollVars>>

\* MT5Stream(symbol, bars_timeframe=v) for a value v that is no key of
\* MT5_TIMEFRAME: __init__ stores it.
InitUnsupported ==
    /\ rolling_ticks = 1
    /\ rolling_bars = 1
    /\ bars_timeframe \in Unsupported
    /\ InitTickState
    /\ InitCandleState
    /\ feedLag = 0
    /\ InitLifeState
    /\ InitLibState

\* The engine started and polled by its owner, and never stopped.
NextUnsupported ==
    \/ TickAtClock
    \/ \E c \in Owners : StartConnect(c)
    \/ \E c \in Owners : StartSelect(c)
    \/ \E c \in Owners : StartCheck(c)
    \/ \E c \in Owners : StartSet(c)
    \/ \E c \in Owners : StartThread(c)
    \/ \E c \in Owners : StartRun(c)
    \/ \E c \in Owners : ManualPoll(c)
    \/ \E t \in Threads : LoopCheck(t)
    \/ \E t \in Threads : LoopPoll(t)
    \/ \E t \in Threads : LoopCallback(t)
    \/ \E t \in Threads : LoopReconnect(t)
    \/ \E t \in Threads : LoopSleep(t)

SpecUnsupported == InitUnsupported /\ [][NextUnsupported]_vars


\* ------------------------------------------------------ stop, then start

\* The life cycle of an engine with a timeframe, driven by one owner: start(),
\* stop(), start() again, with ticks arriving as the broker clock moves.
InitRestart ==
    /\ rolling_ticks = 1
    /\ rolling_bars = 1
    /\ bars_timeframe = "M1"
    /\ InitTickState
    /\ InitCandleState
    /\ feedLag = 0
    /\ InitLifeState
    /\ InitLibState

NextRestart ==
    \/ TickAtClock
    \/ \E c \in Owners : StartConnect(c)
    \/ \E c \in Owners : StartSelect(c)
    \/ \E c \in Owners : StartCheck(c)
    \/ \E c \in Owners : StartSet(c)
    \/ \E c \in Owners : StartThread(c)
    \/ \E c \in Owners : StartRun(c)
    \/ \E c \in Owners : StopSet(c)
    \/ \E c \in Owners : StopJoinReturn(c)
    \/ \E t \in Threads : LoopCheck(t)
    \/ \E t \in Threads : LoopPoll(t)
    \/ \E t \in Threads : LoopCallback(t)
    \/ \E t \in Threads : LoopReconnect(t)
    \/ \E t \in Threads : LoopSleep(t)

SpecRestart == InitRestart /\ [][NextRestart]_vars


\* ------------------------------------------------- boundaries, any timeframe

\* get_next_candle_time(now, bars_timeframe) is called.
ApplyNextCandleTime ==
    /\ next_time = NoTime
    /\ next_err = None
    /\ next_time' = get_next_candle_time(now, bars_timeframe).next_time
    /\ next_err' = get_next_candle_time(now, bars_timeframe).error
    /\ UNCHANGED <<cfgVars, delivered, tickVars, snapVars, candleVars, lifeVars, raceVars,
                   pollVars, connVars, execVars>>

\* Both functions have been applied; another instant is taken.
NextCall ==
    /\ callPeriod # NoTime
    /\ next_time # NoTime \/ next_err # None
    /\ now' \in Instants
    /\ callPeriod' = NoTime
    /\ next_time' = NoTime
    /\ next_err' = None
    /\ UNCHANGED <<cfgVars, delivered, tickVars, snapVars, feedLag, bars, last_candle_time,
                   appended, requested, lifeVars, raceVars, pollVars, connVars,
                   execVars>>

\* _get_period_start and get_next_candle_time on the instants, for the five
\* timeframes and for values that are none of them.
InitBoundary ==
    /\ rolling_ticks = 0
    /\ rolling_bars = 0
    /\ bars_timeframe \in Timeframes \cup Unsupported
    /\ InitTickState
    /\ now \in {t \in Instants : t < 86400}
    /\ feedLag = 0
    /\ bars = <<>>
    /\ last_candle_time = NoTime
    /\ callPeriod = NoTime
    /\ appended = <<>>
    /\ requested = FALSE
    /\ InitLifeState
    /\ InitLibState

NextBoundary == ApplyPeriodStart \/ ApplyNextCandleTime \/ NextCall

SpecBoundary == InitBoundary /\ [][NextBoundary]_vars


\* ----------------------------------------------------------------- claims
\* C1 (closed-candle invariant): every row a call of _fetch_completed_candles
\* appended has a period start strictly below the current_period of that call,
\* and no row of the bars buffer is the record of an interval that was still
\* forming when the broker reported it.
C1_ClosedCandleInvariant ==
    /\ \A i \in 1..Len(appended) : appended[i].time < callPeriod
    /\ \A i \in 1..Len(bars) : bars[i].final

\* C2 (tick dedup): with the feed's time_msc values non-decreasing, the tick
\* buffer holds no time_msc value twice and is sorted by time_msc, i.e. its
\* time_msc values are strictly increasing.
C2_TickDedup ==
    \A i, j \in 1..Len(ticks) : i < j => ticks[i].time_msc < ticks[j].time_msc

\* C3 (bounded tick buffer): for a capacity rolling_ticks >= 1 the tick buffer
\* never holds more than rolling_ticks rows after an ingest, and once more than
\* rolling_ticks rows were ingested it is exactly the last rolling_ticks of
\* them, in the order they were ingested.
C3_BoundedTickBuffer ==
    rolling_ticks >= 1 =>
        /\ Len(ticks) <= rolling_ticks
        /\ Len(ingested) > rolling_ticks =>
              ticks = SubSeq(ingested, Len(ingested) - rolling_ticks + 1, Len(ingested))
        /\ Len(ingested) <= rolling_ticks => ticks = ingested

\* C3's case: more rows were ingested than the buffer holds, and rows were evicted.
C3_Witness ==
    /\ rolling_ticks >= 1
    /\ Len(ingested) > rolling_ticks
    /\ Len(ticks) = rolling_ticks
    /\ ticks[1] # ingested[1]

\* C4 (idempotent re-poll): a call of _fetch_completed_candles made in the
\* same period as the call before it (which the feed answered) leaves the bars
\* buffer and last_candle_time as they were.
C4_IdempotentRePoll ==
    [][(callPeriod # NoTime /\ callPeriod' = callPeriod)
          => (bars' = bars /\ last_candle_time' = last_candle_time)]_vars

\* C10 (snapshot independence): what a caller does to a frame it got from
\* ticks or bars never changes the engine's buffer, and no poll changes a frame
\* already handed out.
C10_SnapshotIndependence ==
    [][/\ MutateTickSnapshot => ticks' = ticks
       /\ MutateBarSnapshot => bars' = bars
       /\ Poll => snap' = snap
       /\ FetchCandles => snap' = snap]_vars

\* C10's case: the caller has overwritten a row of a tick snapshot, and the
\* engine has since ingested a tick the snapshot does not hold.
C10_Witness ==
    /\ snapOf = "ticks"
    /\ \E i \in 1..Len(snap) : snap[i] = ZeroTick
    /\ \A i \in 1..Len(ticks) : ticks[i] # ZeroTick
    /\ \E i \in 1..Len(ticks) : \A j \in 1..Len(snap) : snap[j].idx < ticks[i].idx

\* C5: a failure of poll() (or of the callback) inside the background thread
\* reaches no caller; it is followed by exactly one _reconnect call, and when
\* that call returns the thread sleeps and goes back to the loop test: the
\* thread is not ended by the failure.
C5_PollFailureReconnects ==
    /\ [](\A t \in Threads :
            /\ iter[t] = "fresh" => nRec[t] = 0
            /\ iter[t] = "failed" => tpc[t] = "reconnect" /\ nRec[t] = 0
            /\ iter[t] = "recovered" => tpc[t] \in {"sleep", "check"} /\ nRec[t] = 1)
    /\ [][(\E t \in Threads : LoopPoll(t) \/ LoopCallback(t) \/ LoopReconnect(t))
            => cerr' = cerr]_vars

\* A thread is back at the loop test of a running engine after a failed poll
\* and a reconnect that returned, no caller having seen an exception.
C5_Witness ==
    \E t \in Threads :
        tpc[t] = "check" /\ iter[t] = "recovered" /\ running /\ cerr = None

\* C6: a failure of _reconnect inside the background thread is swallowed as
\* well: the thread that met it is still alive.
C6_ReconnectFailureSwallowed ==
    \A t \in Threads : iter[t] = "lost" => Alive(t)

\* C7: at most one background thread of the engine is alive at any time.
C7_AtMostOneTask ==
    Cardinality({t \in Threads : Alive(t)}) <= 1

\* C8: a snapshot of the ticks taken while a poll() is running is a state of
\* the buffer between two complete ingests, so it is never longer than
\* rolling_ticks.
C8_SnapshotBetweenIngests ==
    snapOf = "ticks" => Len(snap) <= rolling_ticks

\* C9: at most one poll() execution at a time is between its read of the
\* frontier and the end of its buffer update.
C9_OneMutatorAtATime ==
    Cardinality({p \in Pollers : Mutating(p)}) <= 1

\* C11: when _ensure_connection or _ensure_symbol fails in start(), the error
\* (MT5ConnectionError, resp. MT5SymbolError) is raised to the caller of
\* start(), the running flag and the thread are left as they were and no
\* thread is created; the running flag is set only by a start() whose
\* initialize and symbol_select both answered true, in that order.
C11_StartFailurePropagates ==
    [][\A c \in Callers :
         /\ (StartConnect(c) /\ cpc'[c] = "idle") =>
               /\ cerr' = "MT5ConnectionError"
               /\ running' = running /\ thread' = thread /\ tpc' = tpc
         /\ (StartSelect(c) /\ cpc'[c] = "idle") =>
               /\ cerr' = "MT5SymbolError"
               /\ cok[c] = 1
               /\ running' = running /\ thread' = thread /\ tpc' = tpc
         /\ StartSet(c) => cok[c] = 2
         /\ StartThread(c) => cok[c] = 2]_vars

\* A start() on an idle engine has raised MT5SymbolError after a connect that
\* succeeded: the engine is not running and has no thread.
C11_Witness ==
    /\ cerr = "MT5SymbolError"
    /\ ~running
    /\ thread = NoThread
    /\ \A t \in Threads : tpc[t] = "none"
    /\ \A c \in Callers : cpc[c] = "idle"

\* C12: start() on a running engine is a no-op: it makes no call to the feed,
\* cannot fail, and returns with nothing changed.
C12_StartNoOpWhenRunning ==
    [][\A c \in Callers :
         (running /\ thread # NoThread /\ Alive(thread) /\ StartConnect(c)) =>
             (cpc'[c] = "idle" /\ cerr' = None /\ cok' = cok)]_vars

\* C13: once the running flag is cleared, each live background thread ends by
\* itself unless the flag is set again; a thread ends only by a step of its
\* own, and it begins a loop iteration only from the loop test with the flag
\* set, so after the flag is cleared it completes at most the iteration in
\* progress.
C13_CooperativeStop ==
    /\ \A t \in Threads : (Alive(t) /\ ~running) ~> (~Alive(t) \/ running)
    /\ [][\A t \in Threads :
            /\ (tpc'[t] = "poll" /\ tpc[t] # "poll") => (tpc[t] = "check" /\ running)
            /\ (tpc'[t] = "dead" /\ tpc[t] # "dead") => (LoopCheck(t) \/ LoopReconnect(t))
         ]_vars

\* A thread has ended at the loop test after stop() cleared the flag, and
\* stop() has returned.
C13_Witness ==
    /\ ~running
    /\ thread # NoThread
    /\ tpc[thread] = "dead"
    /\ iter[thread] = "fresh"
    /\ \A c \in Callers : cpc[c] = "idle"

\* C14: when stop() clears the flag while the background thread is in its
\* sleep, stop() returns (the join is bounded), the flag is false when it
\* returns, and from then on neither buffer, nor the frontier, nor
\* _last_candle_time changes while the flag stays cleared.
C14_StopWhileSleeping ==
    /\ \A c \in Owners : (cpc[c] = "stop_join") ~> (cpc[c] = "idle" /\ ~running)
    /\ [][(~running /\ \A t \in Threads : tpc[t] \notin {"poll", "callback", "reconnect"}) =>
            /\ <<last_tick_msc, ticks, bars, last_candle_time>>' =
                   <<last_tick_msc, ticks, bars, last_candle_time>>
            /\ ~running' => \A t \in Threads : tpc'[t] \notin {"poll", "callback", "reconnect"}
         ]_vars

\* stop() found the thread asleep and is in its join, a tick waiting at the
\* feed that the engine has not ingested.
C14_Witness ==
    \E c \in Owners :
        /\ cpc[c] = "stop_join"
        /\ tpc[cjoin[c]] = "sleep"
        /\ ~running
        /\ Len(feedTicks) > Len(ingested)

\* C15: every exception raised inside a poll() called by the program, at the
\* tick fetch, the tick ingest or the candle aggregation, is raised to that
\* caller; no reconnect is made and no thread or flag is touched.
C15_ManualPollSurfacesErrors ==
    [][\A c \in Callers :
         (ManualPoll(c) /\ pfail' # "none") =>
             /\ cerr' = "Exception"
             /\ nRec' = nRec /\ tpc' = tpc /\ running' = running /\ thread' = thread
      ]_vars

\* A poll() of the program raised in _fetch_completed_candles, after it had
\* ingested a tick, and the caller has the exception.
C15_Witness ==
    /\ pfail = "candles"
    /\ cerr = "Exception"
    /\ ticks # <<>>
    /\ bars = <<>>

\* C16: with a bars_timeframe configured, every poll() that returns has called
\* _fetch_completed_candles, the poll whose tick fetch found no new tick
\* included.
C16_AggregatorEveryPoll ==
    [][\A c \in Callers :
         (ManualPoll(c) /\ pfail' = "none" /\ bars_timeframe # None) => aggCalled'
      ]_vars

\* C17: poll() returns and appends exactly the rows of the fetched batch whose
\* time_msc is greater than the frontier, in feed order; after [101,102,103]
\* the batch [103,104,105] yields exactly 104 and 105; a batch with nothing
\* above the frontier returns empty and leaves the frontier and the buffer
\* as they were.
C17_PollReturnsNewTicks ==
    [][Poll =>
         /\ \E a \in 1..(Len(feedTicks) + 1) :
               LET batch == copy_ticks_from(a)
                   idx   == {i \in 1..Len(batch) : batch[i].time_msc > last_tick_msc}
               IN  /\ Len(df_ret') = Cardinality(idx)
                   /\ \A i \in 1..Len(df_ret') :
                         /\ \E j \in idx : df_ret'[i] = batch[j]
                         /\ i > 1 => df_ret'[i - 1].idx < df_ret'[i].idx
         /\ ingested' = ingested \o df_ret'
         /\ LET all == ticks \o df_ret'
            IN  ticks' = IF Len(all) > rolling_ticks
                         THEN SubSeq(all, Len(all) - rolling_ticks + 1, Len(all))
                         ELSE all
         /\ df_ret' = <<>> => last_tick_msc' = last_tick_msc /\ ticks' = ticks
         /\ df_ret' # <<>> => last_tick_msc' = df_ret'[Len(df_ret')].time_msc
         /\ (last_tick_msc = 103 /\ df_ret' # <<>>) => df_ret'[1].time_msc > 103
      ]_vars

\* The first poll took 101, 102, 103 and the second, given 103, 104, 105,
\* returned 104 and 105.
C17_Witness ==
    /\ last_tick_msc = 105
    /\ Len(ingested) = 5
    /\ \A i \in 1..5 : ingested[i].time_msc = 100 + i
    /\ df_ret = <<Tick(104, 4), Tick(105, 5)>>

\* C18: the first candle fetch of an M1 engine at 00:02:30, the feed answering
\* with the records of 00:00, 00:01 and the forming 00:02: exactly the 00:00
\* and 00:01 candles are appended, in that order, and _last_candle_time is
\* 00:01.
C18_FirstFetchM1 ==
    [][(/\ FetchCandles
        /\ bars_timeframe = "M1" /\ now = 150 /\ feedLag = 0
        /\ last_candle_time = NoTime
        /\ requested' /\ callPeriod' # NoTime) =>
           /\ appended' = <<Candle(0, TRUE), Candle(60, TRUE)>>
           /\ bars' = <<Candle(0, TRUE), Candle(60, TRUE)>>
           /\ last_candle_time' = 60
      ]_vars

\* The state after that first fetch.
C18_Witness ==
    /\ bars_timeframe = "M1" /\ now = 150 /\ feedLag = 0
    /\ requested /\ callPeriod = 120
    /\ appended = <<Candle(0, TRUE), Candle(60, TRUE)>>
    /\ bars = appended
    /\ last_candle_time = 60

\* C19: under one poller and a feed that answers in increasing period order,
\* the candle buffer has strictly increasing times (no time twice), and for
\* rolling_bars >= 1 it never holds more than rolling_bars rows, the oldest
\* leaving first: after a fetch it is the last rolling_bars rows of what it
\* held followed by what the fetch appended.
C19_CandleBufferInvariant ==
    /\ [](/\ \A i, j \in 1..Len(bars) : i < j => bars[i].time < bars[j].time
          /\ rolling_bars >= 1 => Len(bars) <= rolling_bars)
    /\ [][(FetchCandles /\ rolling_bars >= 1) =>
            LET all == bars \o appended'
            IN  bars' = IF Len(all) > rolling_bars
                        THEN SubSeq(all, Len(all) - rolling_bars + 1, Len(all))
                        ELSE all
         ]_vars

\* A full buffer whose oldest rows have left: the last fetch appended to rows
\* already there, and the period of the first row is not the first period.
C19_Witness ==
    /\ rolling_bars >= 1
    /\ Len(bars) = rolling_bars
    /\ appended # <<>>
    /\ Len(appended) < Len(bars)
    /\ bars[1].time > PeriodLen(bars_timeframe)

\* C20: for every instant t and each of the five timeframes, of period length
\* L, r = _get_period_start(t) is a multiple of L counted from UTC midnight,
\* r <= t < r + L, and _get_period_start(r) = r; 2024-01-01T00:07:31 gives
\* 2024-01-01T00:05:00 under M5 and 2024-01-01T23:59:59 gives
\* 2024-01-01T00:00:00 under D1.
C20_PeriodStartTruncation ==
    callPeriod # NoTime =>
        LET r == callPeriod
            L == PeriodLen(bars_timeframe)
        IN  /\ (r - DtDate(now)) % L = 0
            /\ r >= DtDate(now)
            /\ r <= now
            /\ now < r + L
            /\ get_period_start(bars_timeframe, r) = r
            /\ (bars_timeframe = "M5" /\ now = 19723 * 86400 + 451) =>
                  r = 19723 * 86400 + 300
            /\ (bars_timeframe = "D1" /\ now = 19723 * 86400 + 86399) =>
                  r = 19723 * 86400

\* _get_period_start was applied to 2024-01-01T00:07:31 under M5.
C20_Witness ==
    /\ bars_timeframe = "M5"
    /\ now = 19723 * 86400 + 451
    /\ callPeriod = 19723 * 86400 + 300

\* C21: for every instant t and each of the five timeframes, of period length
\* L, n = get_next_candle_time(t) is strictly greater than t, is a multiple of
\* L counted from midnight, and equals _get_period_start(t) + L, also when the
\* minute computed is 60 and when the next boundary is the next midnight;
\* 2024-01-01T00:59:00 gives 2024-01-01T01:00:00 under H1.
C21_NextBoundary ==
    (bars_timeframe \in Timeframes /\ (next_time # NoTime \/ next_err # None)) =>
        LET n == next_time
            L == PeriodLen(bars_timeframe)
        IN  /\ next_err = None
            /\ n > now
            /\ (n - DtDate(n)) % L = 0
            /\ n = get_period_start(bars_timeframe, now) + L
            /\ (bars_timeframe = "H1" /\ now = 19723 * 86400 + 59 * 60) =>
                  n = 19723 * 86400 + 3600

\* get_next_candle_time was applied to 23:59:31 under M5: the minute computed
\* is 60 and the boundary is the midnight of the next day.
C21_Witness ==
    /\ bars_timeframe = "M5"
    /\ now = 19723 * 86400 + 23 * 3600 + 59 * 60 + 31
    /\ next_time = 19724 * 86400

\* C22: _get_period_start and get_next_candle_time given a timeframe that is
\* none of the five raise an invalid-configuration error and return no value.
C22_UnsupportedTimeframeFails ==
    bars_timeframe \notin Timeframes =>
        /\ callPeriod = NoTime
        /\ next_time = NoTime
        /\ (next_time # NoTime \/ next_err # None) => next_err = "ValueError"

\* C23: an engine constructed with a timeframe that is none of the five holds
\* it unchecked; its start() fails only when the feed refuses the connection
\* or the symbol, and returns with the thread started otherwise; every poll()
\* whose _fetch_completed_candles call gets the clock's tick raises KeyError,
\* so a poll() that returns has not got that far; no candle is ever appended.
C23_ErrorAtFirstAggregation ==
    [][/\ \A c \in Owners :
             /\ (StartConnect(c) /\ cpc'[c] = "idle") => cerr' = "MT5ConnectionError"
             /\ (StartSelect(c) /\ cpc'[c] = "idle") => cerr' = "MT5SymbolError"
             /\ StartRun(c) => (cerr' = None /\ tpc'[thread] = "check")
             /\ (ManualPoll(c) /\ pfail' = "none") =>
                    ~(aggCalled' /\ callPeriod' # NoTime)
       /\ \A a \in 1..(Len(feedTicks) + 1) :
             (poll(a) /\ aggCalled' /\ callPeriod' # NoTime) => perr' = "KeyError"
       /\ bars_timeframe' \in Unsupported
       /\ bars' = <<>>
       /\ last_candle_time' = NoTime]_vars

\* The engine was started, and a poll() of its owner that ingested a tick
\* raised KeyError.
C23_Witness ==
    /\ running
    /\ thread # NoThread
    /\ ticks # <<>>
    /\ aggCalled
    /\ cerr = "KeyError"
    /\ pfail = "candles"
    /\ bars = <<>>

\* C24: ensure_connection gives login, password and server to mt5.initialize
\* exactly when all three are set, and none of them otherwise; it gives the
\* path exactly when terminal_path is set; it raises MT5ConnectionError,
\* holding the code of mt5.last_error(), exactly when initialize answers false.
C24_EnsureConnection ==
    init_call.called =>
        LET kw == init_call.kwargs
            present == /\ cred.login \notin Falsy
                       /\ cred.password \notin Falsy
                       /\ cred.server \notin Falsy
            names == {p[1] : p \in kw}
        IN  /\ present => {<<"login", cred.login>>, <<"password", cred.password>>,
                           <<"server", cred.server>>} \subseteq kw
            /\ ~present => names \cap {"login", "password", "server"} = {}
            /\ cred.terminal_path \notin Falsy =>
                  <<"path", cred.terminal_path>> \in kw
            /\ cred.terminal_path \in Falsy => "path" \notin names
            /\ Cardinality(kw) = Cardinality(names)
            /\ names \subseteq {"path", "login", "password", "server"}
            /\ init_call.ok <=> init_call.raised = NoException
            /\ ~init_call.ok =>
                  /\ init_call.raised.type = "MT5ConnectionError"
                  /\ init_call.raised.last_error = init_call.feed_error

\* ensure_connection was called with a login and a server but no password,
\* and with a terminal path: initialize got the path alone, answered false
\* with the authorization code, and the exception holds that code.
C24_Witness ==
    /\ init_call.called
    /\ cred.login = "1234567"
    /\ cred.password = None
    /\ cred.server = "Broker-Server"
    /\ init_call.kwargs = {<<"path", "C:/MT5/terminal64.exe">>}
    /\ ~init_call.ok
    /\ init_call.raised.message = "authorization failed"
    /\ init_call.feed_error = "RES_E_AUTH_FAILED"

\* C25: a close_all(symbol) that returns has sent, for each open position (of
\* that symbol when one is given) and in their order, one market order of the
\* other side with the position's symbol and volume, and has returned the
\* number of those whose retcode is DONE; with no such position it sends
\* nothing and returns 0; a close_all that raised has sent orders for the
\* first positions only, at most one per position, and none after the one at
\* which it raised.
C25_CloseAll ==
    closed # NoTime \/ xerr # None =>
        LET poss == IF close_symbol = None THEN positions
                    ELSE SelectSeq(positions, LAMBDA p : p.symbol = close_symbol)
            done == SelectSeq(orders, LAMBDA o : o.retcode = "DONE")
            matches(i) == /\ orders[i].symbol = poss[i].symbol
                          /\ orders[i].volume = poss[i].volume
                          /\ orders[i].type = IF poss[i].type = "BUY"
                                              THEN "SELL" ELSE "BUY"
        IN  /\ Len(orders) <= Len(poss)
            /\ \A i \in 1..Len(orders) : matches(i)
            /\ xerr = None =>
                  /\ Len(orders) = Len(poss)
                  /\ closed = Len(done)
            /\ poss = <<>> => (orders = <<>> /\ closed = 0 /\ xerr = None)
            /\ xerr # None =>
                  /\ closed = NoTime
                  /\ \A i \in 1..Len(orders) :
                        orders[i].retcode = "None" => i = Len(orders)

\* close_all() with two positions open: the order for the first, a BUY, was a
\* sell of its volume and was done; the call raised at the second, for which
\* nothing was sent.
C25_Witness ==
    /\ close_symbol = None
    /\ Len(positions) = 2
    /\ positions[1].type = "BUY"
    /\ Len(orders) = 1
    /\ orders[1].type = "SELL"
    /\ orders[1].volume = positions[1].volume
    /\ orders[1].retcode = "DONE"
    /\ closed = NoTime
    /\ xerr = "RuntimeError"

\* C26: a fetch made after a candle was fetched before, whatever the number
\* of periods between the two, appends every closed bar the feed holds after
\* _last_candle_time: the first row it appends is the bar of the period that
\* follows _last_candle_time, so no period is skipped in the buffer.
C26_LookbackComplete ==
    [][(FetchCandles /\ last_candle_time # NoTime /\ appended' # <<>>) =>
          appended'[1].time = last_candle_time + PeriodLen(bars_timeframe)]_vars

\* C27: on the first fetch, when the feed returns k records (1 <= k <=
\* rolling_bars) the last of which is the bar still forming, the k - 1 closed
\* records are appended; for k = 1 nothing is appended and _last_candle_time
\* stays None.
C27_NearEmptyHistory ==
    [][LET rates == copy_rates_from(bars_timeframe, now, rolling_bars, feedLag)
       IN  (/\ FetchCandles
            /\ last_candle_time = NoTime
            /\ requested' /\ callPeriod' # NoTime
            /\ rates # <<>>
            /\ ~rates[Len(rates)].final) =>
               /\ appended' = SubSeq(rates, 1, Len(rates) - 1)
               /\ Len(rates) = 1 => (bars' = <<>> /\ last_candle_time' = NoTime)]_vars

\* C28: a call of _fetch_completed_candles made when _last_candle_time is set
\* and its period is not before the period of the clock (no boundary was
\* crossed, or the clock went back) makes no rate request and leaves the
\* candle buffer and _last_candle_time as they were.
C28_PeriodGuard ==
    [][(/\ FetchCandles
        /\ last_candle_time # NoTime
        /\ get_period_start(bars_timeframe, last_candle_time)
              >= get_period_start(bars_timeframe, now)) =>
           /\ ~requested'
           /\ appended' = <<>>
           /\ bars' = bars
           /\ last_candle_time' = last_candle_time]_vars

\* A call was made with the clock in a period before the one of
\* _last_candle_time: it asked the feed for no rates.
C28_Witness ==
    /\ last_candle_time # NoTime
    /\ callPeriod # NoTime
    /\ callPeriod = get_period_start(bars_timeframe, now)
    /\ callPeriod < get_period_start(bars_timeframe, last_candle_time)
    /\ ~requested
    /\ bars # <<>>

\* C29: a fetch that appends rows leaves _last_candle_time at the period
\* start of the newest row of the candle buffer; a fetch that appends nothing
\* leaves it unchanged; and it never decreases.
C29_LastCandleTracking ==
    [][/\ (FetchCandles /\ appended' # <<>>) =>
             /\ bars' # <<>>
             /\ last_candle_time' = bars'[Len(bars')].time
             /\ last_candle_time' =
                    get_period_start(bars_timeframe, bars'[Len(bars')].time)
       /\ (FetchCandles /\ appended' = <<>>) => last_candle_time' = last_candle_time
       /\ last_candle_time' >= last_candle_time]_vars

\* A fetch made after an earlier one appended more rows than the buffer
\* keeps, and _last_candle_time is the time of the newest row.
C29_Witness ==
    /\ Len(appended) > rolling_bars
    /\ Len(bars) = rolling_bars
    /\ appended[1].time > PeriodLen(bars_timeframe)
    /\ last_candle_time = bars[Len(bars)].time
    /\ last_candle_time = appended[Len(appended)].time

\* C30: with one poller the frontier _last_tick_msc never decreases, changes
\* only in a poll() that returns at least one tick, and after such a poll is
\* the time_msc of the last row of the tick buffer.
C30_FrontierMonotone ==
    [][/\ last_tick_msc' >= last_tick_msc
       /\ last_tick_msc' # last_tick_msc => (Poll /\ df_ret' # <<>>)
       /\ (Poll /\ df_ret' # <<>>) =>
             /\ ticks' # <<>>
             /\ last_tick_msc' = ticks'[Len(ticks')].time_msc
             /\ last_tick_msc' = df_ret'[Len(df_ret')].time_msc]_vars

\* A poll() returned two ticks with different time_msc after an earlier poll
\* had moved the frontier, and the frontier is the time_msc of the last row.
C30_Witness ==
    /\ Len(df_ret) >= 2
    /\ df_ret[1].time_msc < df_ret[Len(df_ret)].time_msc
    /\ Len(ingested) > Len(df_ret)
    /\ ticks # <<>>
    /\ last_tick_msc = ticks[Len(ticks)].time_msc

\* C31 as stated: when the callback is called, every row of its batch is a
\* row of the tick buffer.
C31_BatchVisibleWhole ==
    \A t \in Threads :
        tpc[t] = "callback" =>
            \A i \in 1..Len(tdf[t]) : \E j \in 1..Len(ticks) : ticks[j] = tdf[t][i]

\* C31: a poll() of the background thread that gets as far as the candle
\* aggregation has appended its batch to the tick buffer before; the callback
\* is reached only from a poll() that returned, with the batch it returned;
\* and when the callback is called the newest rows of its batch, as many as
\* rolling_ticks allows, are the newest rows of the tick buffer.
C31_IngestBeforeAggregation ==
    /\ [][\A t \in Threads :
            /\ (LoopPoll(t) /\ (tpc'[t] = "reconnect" => perr' # None)
                  /\ (aggCalled' \/ perr' # None)) =>
                  /\ df_ret' # <<>>
                  /\ ingested' = ingested \o df_ret'
                  /\ ticks' = append_ticks(ticks, df_ret', rolling_ticks)
            /\ (LoopPoll(t) /\ <<bars, last_candle_time>>' # <<bars, last_candle_time>>) =>
                  ingested' # ingested
            /\ (tpc'[t] = "callback" /\ tpc[t] # "callback") =>
                  /\ LoopPoll(t)
                  /\ perr' = None
                  /\ tdf'[t] = df_ret'
         ]_vars
    /\ [](\A t \in Threads :
            tpc[t] = "callback" =>
                LET n == Len(tdf[t])
                    k == Min(n, rolling_ticks)
                IN  /\ n > 0
                    /\ Len(ticks) >= k
                    /\ SubSeq(tdf[t], n - k + 1, n)
                          = SubSeq(ticks, Len(ticks) - k + 1, Len(ticks)))

\* The callback is about to be called with a batch of two ticks, both in the
\* tick buffer, after a poll() that appended a candle.
C31_Witness ==
    \E t \in Threads :
        /\ tpc[t] = "callback"
        /\ Len(tdf[t]) = 2
        /\ ticks = tdf[t]
        /\ aggCalled
        /\ bars # <<>>

\* C32: in an iteration of _loop the callback is called at most once; it is
\* called exactly when start() was given one and the poll() of the iteration
\* returned a batch that is not empty; its argument is that batch.
C32_CallbackDispatch ==
    [][\A t \in Threads :
         /\ LoopCallback(t) =>
               /\ tcb[t]
               /\ tdf[t] # <<>>
               /\ delivered' = delivered \o tdf[t]
               /\ tpc'[t] \in {"sleep", "reconnect"}
         /\ (tpc'[t] = "callback" /\ tpc[t] # "callback") =>
               /\ LoopPoll(t)
               /\ tcb[t]
               /\ df_ret' # <<>>
               /\ tdf'[t] = df_ret'
         /\ (LoopPoll(t) /\ tpc'[t] # "reconnect" /\ tcb[t] /\ df_ret' # <<>>) =>
               tpc'[t] = "callback"
         /\ (tpc'[t] = "poll" /\ tpc[t] # "poll") => LoopCheck(t)
      ]_vars

\* The callback has been called with the one tick of the feed and the thread
\* is in its sleep.
C32_Witness ==
    \E t \in Threads :
        /\ tcb[t]
        /\ tpc[t] = "sleep"
        /\ tdf[t] = <<>>
        /\ delivered # <<>>
        /\ delivered = ingested

\* C35: with a callback given, the rows the background thread has appended to
\* the tick buffer are the rows it has called the callback with, once each
\* and in the same order, followed by the batch whose callback is due.
C35_EveryTickDelivered ==
    \A t \in Threads :
        (Alive(t) /\ tcb[t]) =>
            ingested = delivered \o (IF tpc[t] = "callback" THEN tdf[t] ELSE <<>>)

\* C37: an exception of the callback reaches no caller and takes the thread
\* to one _reconnect call, after which it sleeps and goes on; neither that
\* step nor the reconnect changes the tick buffer or the frontier; and no
\* tick is passed to the callback twice.
C37_CallbackFailure ==
    /\ [][\A t \in Threads :
            /\ (LoopCallback(t) /\ iter'[t] = "failed") =>
                  /\ tpc'[t] = "reconnect"
                  /\ nRec'[t] = 0
                  /\ cerr' = cerr
                  /\ <<ticks, last_tick_msc, ingested>>' = <<ticks, last_tick_msc, ingested>>
                  /\ \A i \in 1..Len(tdf[t]) :
                        \E j \in 1..Len(ingested) : ingested[j] = tdf[t][i]
            /\ LoopReconnect(t) =>
                  /\ nRec[t] = 0 /\ nRec'[t] = 1
                  /\ tpc'[t] \in {"sleep", "dead"}
                  /\ <<ticks, last_tick_msc, delivered>>' = <<ticks, last_tick_msc, delivered>>
         ]_vars
    /\ [](\A i, j \in 1..Len(delivered) : i # j => delivered[i] # delivered[j])

\* The callback raised on the first tick; the thread reconnected, went on, and
\* has called the callback with the second tick.
C37_Witness ==
    \E t \in Threads :
        /\ Len(delivered) = 2
        /\ delivered = ingested
        /\ tpc[t] = "reconnect"
        /\ iter[t] = "failed"
        /\ last_tick_msc = 2
        /\ ticks # <<>>
        /\ tdf[t] = <<>>

\* The number of entries of a call sequence that are the call fn.
Count(calls, fn) == Cardinality({i \in 1..Len(calls) : calls[i] = fn})

\* C33: a reconnect call tears the connection down once, whether or not the
\* teardown raises, then calls mt5.initialize exactly once; it selects the
\* symbol, once, exactly when the initialize succeeded (and a symbol was
\* given); a failed initialize ends the call with MT5ConnectionError and a
\* failed select with MT5SymbolError, with no further attempt.
C33_ReconnectOnce ==
    reconn.calls # <<>> =>
        /\ reconn.calls[1] = "mt5.shutdown"
        /\ Count(reconn.calls, "mt5.shutdown") = 1
        /\ Count(reconn.calls, "mt5.initialize") = 1
        /\ Count(reconn.calls, "mt5.symbol_select")
              = (IF reconn.init_ok /\ reconn.symbol \notin Falsy THEN 1 ELSE 0)
        /\ reconn.calls[Len(reconn.calls)]
              = (IF ~reconn.init_ok THEN "mt5.last_error"
                 ELSE IF reconn.symbol \notin Falsy THEN "mt5.symbol_select"
                 ELSE "mt5.initialize")
        /\ reconn.raised
              = (IF ~reconn.init_ok THEN "MT5ConnectionError"
                 ELSE IF reconn.symbol \notin Falsy /\ ~reconn.select_ok
                      THEN "MT5SymbolError"
                 ELSE None)
        /\ init_call.called
        /\ init_call.kwargs = initialize_kwargs(cred)
        /\ (reconn.raised = "MT5ConnectionError") = (init_call.raised # NoException)

\* A reconnect whose teardown raised and whose initialize failed: it ended
\* with MT5ConnectionError and never asked for the symbol.
C33_Witness ==
    /\ reconn.calls = <<"mt5.shutdown", "time.sleep", "mt5.initialize", "mt5.last_error">>
    /\ reconn.shutdown_raised
    /\ reconn.symbol = "EURUSD"
    /\ reconn.raised = "MT5ConnectionError"
    /\ init_call.raised.last_error = "RES_E_AUTH_FAILED"

\* C34: whenever the running flag is set and no start() is between setting
\* it and starting its thread, some background thread is alive; and no
\* background thread ends while the flag is set.
C34_RunningMeansAlive ==
    /\ []((running /\ \A c \in Callers : cpc[c] \in {"idle", "stop_join"}) =>
            \E t \in Threads : Alive(t))
    /\ [][\A t \in Threads : (tpc'[t] = "dead" /\ tpc[t] # "dead") => ~running]_vars

\* C36: once stop() has returned and until start() is called, the tick
\* buffer, the candle buffer, the frontier and _last_candle_time do not
\* change, whatever the background thread was doing when stop() was called.
C36_NoMutationAfterStop ==
    [][(~running /\ \A c \in Callers : cpc[c] = "idle") =>
          <<last_tick_msc, ticks, bars, last_candle_time>>' =
              <<last_tick_msc, ticks, bars, last_candle_time>>
      ]_vars

\* C38: no step of start() or stop() changes the frontier, _last_candle_time
\* or either buffer; every poll() of a background thread, before or after a
\* restart, appends only ticks above the frontier it finds and only candles
\* later than the _last_candle_time it finds; so no tick is ingested twice.
C38_RestartKeepsState ==
    /\ [][\A c \in Owners :
            (StartConnect(c) \/ StartSelect(c) \/ StartCheck(c) \/ StartSet(c)
               \/ StartThread(c) \/ StartRun(c) \/ StopSet(c) \/ StopJoinReturn(c)) =>
                <<last_tick_msc, ticks, ingested, bars, last_candle_time>>' =
                    <<last_tick_msc, ticks, ingested, bars, last_candle_time>>
         ]_vars
    /\ [][\A t \in Threads :
            LoopPoll(t) =>
                /\ Len(ingested') >= Len(ingested)
                /\ SubSeq(ingested', 1, Len(ingested)) = ingested
                /\ \A i \in (Len(ingested) + 1)..Len(ingested') :
                      ingested'[i].time_msc > last_tick_msc
                /\ last_tick_msc' >= last_tick_msc
                /\ (last_candle_time # NoTime /\ bars' # bars) =>
                      /\ \A i \in 1..Len(appended') : appended'[i].time > last_candle_time
                      /\ last_candle_time' > last_candle_time
         ]_vars
    /\ [](\A i, j \in 1..Len(ingested) : i # j => ingested[i] # ingested[j])

\* The first thread ingested the tick and a candle and passed the tick to its
\* callback, stop() ended it, and the thread of a second start() has polled
\* and ingested nothing again.
C38_Witness ==
    /\ running
    /\ thread = 2
    /\ tpc[1] = "dead"
    /\ tcb[1] /\ ~tcb[2]
    /\ tpc[2] = "sleep"
    /\ iter[2] = "fresh"
    /\ Len(ingested) = 1
    /\ delivered = ingested
    /\ ticks = ingested
    /\ last_tick_msc = 1
    /\ last_candle_time # NoTime

\* C39: with rolling_ticks = 0 the tick buffer is empty after every ingest.
C39_ZeroCapacityStaysEmpty ==
    rolling_ticks = 0 => ticks = <<>>

=============================================================================
